---- MODULE Spec2Model ----
(***************************************************************************)
(* A model of the wallet "fun fact" analyzers of nansenapitest.             *)
(*                                                                         *)
(* Numbers: JavaScript numbers are modelled as exact rationals <<n, d>>     *)
(* (d > 0, lowest terms); a division by zero gives the non-finite value     *)
(* <<n, 0>>.  Upstream amounts are small integers; null is the value NULL.  *)
(* Addresses are sequences of characters, "0x" followed by HexLen hex       *)
(* digits (the 40 digits of the program scaled down), so that lower-casing  *)
(* is computed character by character.                                      *)
(***************************************************************************)
EXTENDS Integers, Sequences, FiniteSets, TLC

VARIABLES
    analyzer,            \* which analyzer this run executes
    pc,                  \* position of the running analyzer
    calls,               \* upstream calls issued so far, in order
    result,              \* the object the analyzer returned
    upstream,            \* what the upstream answered to each call of the run
    buyTransactions,     \* analyzeEthBenchmark locals
    totalUsdSpent,
    totalEthEquivalent,
    pricesFound,
    purchasedTokens,
    currentEthPrice,
    ethEquivalentValue,
    tokenAddresses,      \* analyzeRuggedProjects local
    tokenHoldings,       \* analyzePortfolioATH locals
    currentValue,
    athPrices,
    athCache,            \* the module-level Price Cache
    now,                 \* the clock, in hours
    cliEntry,            \* the entry point that runs
    cliInput,            \* its configured address, or its command-line arguments
    cliPc,               \* its position
    cliAddress,          \* what validateAndNormalizeAddress gave
    cliInvoked,          \* the analyzers invoked so far, each with its address
    runs,                \* the analyzer calls in progress in one process, with their locals
    wallet,              \* the holdings the balance upstream reports to those calls
    scenario,            \* the answers the upstreams give to those calls
    lastSet,             \* per cache key, the record and time of the latest set
    got,                 \* the outcome of the latest get
    priceService,        \* a PriceService call: its providers, the queries so far, its outcome
    paging,              \* the fetch-all-transactions loop: its locals and the pages it got
    tx,                  \* input of the pure-function specification
    txPrice,             \* getEthPriceFromTransaction(tx)
    txDone

ethVars == <<buyTransactions, totalUsdSpent, totalEthEquivalent, pricesFound,
             purchasedTokens, currentEthPrice, ethEquivalentValue>>
runVars == <<analyzer, pc, calls, result, upstream>>
athVars == <<tokenHoldings, currentValue, athPrices, athCache>>
txVars == <<tx, txPrice, txDone>>
otherVars == <<tokenAddresses, athVars>>
cliVars == <<cliEntry, cliInput, cliPc, cliAddress, cliInvoked>>
pageVars == <<priceService, paging>>
concVars == <<runs, wallet, scenario, lastSet, got, pageVars>>
auxVars == <<now, cliVars, concVars>>
vars == <<runVars, ethVars, otherVars, txVars, auxVars>>

----------------------------------------------------------------------------
(* Bounds of the model *)

MaxTxs == 3          \* transactions in a transaction-history response
MaxBalances == 2     \* entries in a balance response
MaxSent == 2         \* transfers in tokens_sent (pure-function inputs)
MaxReceived == 2     \* transfers in tokens_received (pure-function inputs)
MaxLabels == 2       \* items in a labels response
MaxItems == 2        \* items in a screener response
MaxPad == 1          \* characters of an address input beyond "0x" and its digits
MaxArgs == 2         \* command-line arguments of the test runner
MaxTicks == 3        \* advances of the clock

----------------------------------------------------------------------------
(* Numbers *)

NULL == 0 - 1

Abs(n) == IF n < 0 THEN 0 - n ELSE n

RECURSIVE GCD(_, _)
GCD(a, b) == IF b = 0 THEN a ELSE GCD(b, a % b)

\* lowest terms, positive denominator; a zero denominator is kept as is
Norm(q) ==
    IF q[2] = 0 THEN q
    ELSE LET n == IF q[2] < 0 THEN 0 - q[1] ELSE q[1]
             d == Abs(q[2])
             g == GCD(Abs(n), d)
         IN <<n \div g, d \div g>>

Rat(n) == <<n, 1>>
Zero == Rat(0)
IsFinite(q) == q[2] # 0
RAdd(x, y) == Norm(<<x[1] * y[2] + y[1] * x[2], x[2] * y[2]>>)
RSub(x, y) == Norm(<<x[1] * y[2] - y[1] * x[2], x[2] * y[2]>>)
RMul(x, y) == Norm(<<x[1] * y[1], x[2] * y[2]>>)
RDiv(x, y) == IF y[1] = 0 THEN <<x[1], 0>> ELSE Norm(<<x[1] * y[2], x[2] * y[1]>>)
RLt(x, y) == x[1] * y[2] < y[1] * x[2]
RGeq(x, y) == x[1] * y[2] >= y[1] * x[2]

----------------------------------------------------------------------------
(* Addresses *)

NullAddr == <<>>     \* a null / undefined / empty token_address (falsy)

LowerChar(c) ==
    CASE c = "A" -> "a"
      [] c = "B" -> "b"
      [] c = "C" -> "c"
      [] c = "D" -> "d"
      [] c = "E" -> "e"
      [] c = "F" -> "f"
      [] c = "G" -> "g"
      [] c = "X" -> "x"
      [] OTHER -> c

toLowerCase(s) == [i \in DOMAIN s |-> LowerChar(s[i])]

ETH_ADDRESS == <<"0", "x", "e", "e">>
ETH_UPPER == <<"0", "x", "E", "E">>
ZERO_ADDRESS == <<"0", "x", "0", "0">>
TokenA == <<"0", "x", "a", "a">>
TokenAMixed == <<"0", "x", "A", "a">>
TokenB == <<"0", "x", "b", "b">>
ZKSYNC_ETH == <<"0", "x", "8", "a">>

Positive(x) == x # NULL /\ x > 0

Transfer(a, p, v) == [token_address |-> a, price_usd |-> p, value_usd |-> v]

\* the test of both loops of getEthPriceFromTransaction
IsNativeWithPrice(token) ==
    /\ token.token_address # NullAddr
    /\ toLowerCase(token.token_address) = toLowerCase(ETH_ADDRESS)
    /\ token.price_usd # NULL
    /\ token.price_usd > 0

\* for (const token of list) { if (test) return token.price_usd }
FirstNativeIndex(list) ==
    LET hits == {i \in DOMAIN list : IsNativeWithPrice(list[i])}
    IN IF hits = {} THEN 0 ELSE CHOOSE i \in hits : \A j \in hits : i <= j

\* Strategy 3: tokens_received[0] only
DerivedEstimate(t) ==
    IF t.volume_usd > 0 /\ Len(t.tokens_received) > 0
    THEN LET tokenReceived == t.tokens_received[1]
         IN IF /\ tokenReceived.value_usd # NULL
               /\ tokenReceived.value_usd > 0
               /\ tokenReceived.price_usd # NULL
               /\ tokenReceived.price_usd > 0
            THEN RMul(Rat(tokenReceived.price_usd),
                      RDiv(Rat(t.volume_usd), Rat(tokenReceived.value_usd)))
            ELSE Zero
    ELSE Zero

\* faulty variant: the received list is inspected before the sent list
getEthPriceReceivedFirst(t) ==
    LET s == FirstNativeIndex(t.tokens_sent)
        r == FirstNativeIndex(t.tokens_received)
    IN IF r # 0 THEN Rat(t.tokens_received[r].price_usd)
       ELSE IF s # 0 THEN Rat(t.tokens_sent[s].price_usd)
       ELSE DerivedEstimate(t)

getEthPriceFromTransaction(t) ==
    LET s == FirstNativeIndex(t.tokens_sent)
        r == FirstNativeIndex(t.tokens_received)
    IN IF s # 0 THEN Rat(t.tokens_sent[s].price_usd)
       ELSE IF r # 0 THEN Rat(t.tokens_received[r].price_usd)
       ELSE DerivedEstimate(t)

----------------------------------------------------------------------------
(* Address validation *)

\* the number of hex digits of an address (the 40 of the program, scaled down as
\* the addresses are)
HexLen == Len(ETH_ADDRESS) - 2

\* [a-fA-F0-9]
IsHexChar(c) ==
    c \in {"0", "1", "2", "3", "4", "5", "6", "7", "8", "9",
           "a", "b", "c", "d", "e", "f", "A", "B", "C", "D", "E", "F"}

IsWhiteSpace(c) == c = " "

\* String.prototype.trim
RECURSIVE trimStart(_)
trimStart(str) ==
    IF str # <<>> /\ IsWhiteSpace(Head(str)) THEN trimStart(Tail(str)) ELSE str

RECURSIVE trimEnd(_)
trimEnd(str) ==
    IF str # <<>> /\ IsWhiteSpace(str[Len(str)])
    THEN trimEnd(SubSeq(str, 1, Len(str) - 1)) ELSE str

trim(str) == trimEnd(trimStart(str))

\* faulty variant: the pattern is not anchored at the end
isValidEthereumAddressPrefix(address) ==
    /\ Len(address) >= HexLen + 2
    /\ address[1] = "0" /\ address[2] = "x"
    /\ \A i \in 3..(HexLen + 2) : IsHexChar(address[i])

\* /^0x[a-fA-F0-9]{40}$/.test(address)
isValidEthereumAddress(address) ==
    /\ Len(address) = HexLen + 2
    /\ address[1] = "0" /\ address[2] = "x"
    /\ \A i \in 3..(HexLen + 2) : IsHexChar(address[i])

\* the outcome of a call: it threw, or it returned value
Threw == [threw |-> TRUE, value |-> <<>>]
Returns(value) == [threw |-> FALSE, value |-> value]

validateAndNormalizeAddress(address) ==
    LET trimmed == trim(address)
    IN IF ~isValidEthereumAddress(trimmed) THEN Threw
       ELSE Returns(toLowerCase(trimmed))

----------------------------------------------------------------------------
(* Inputs of the pure-function specification *)

SeqsUpTo(S, n) == UNION {[1..k -> S] : k \in 0..n}

SentUniverse ==
    { Transfer(ETH_ADDRESS, 20, NULL), Transfer(ETH_UPPER, 19, NULL),
      Transfer(ETH_ADDRESS, NULL, NULL), Transfer(ETH_ADDRESS, 0, NULL),
      Transfer(TokenA, 1, NULL) }

ReceivedUniverse ==
    { Transfer(ETH_ADDRESS, 18, 36), Transfer(ETH_UPPER, 0, 36),
      Transfer(TokenA, 3, 6), Transfer(TokenAMixed, NULL, 6),
      Transfer(TokenA, 3, 0), Transfer(ZERO_ADDRESS, 3, NULL),
      Transfer(TokenB, 4, 8), Transfer(NullAddr, 5, 10) }

Volumes == {12, 24}

TxInputs ==
    [volume_usd : Volumes,
     tokens_sent : SeqsUpTo(SentUniverse, MaxSent),
     tokens_received : SeqsUpTo(ReceivedUniverse, MaxReceived) \ {<<>>}]

NoTx == [volume_usd |-> 0, tokens_sent |-> <<>>, tokens_received |-> <<>>]

----------------------------------------------------------------------------
(* analyzeEthBenchmark: synchronous helpers *)

EthFallbackText == "No meaningful history yet for young wallets, CEX-only flows excluded"

NoResult == [type |-> "none"]

EthFallback == [type |-> "eth_benchmark", success |-> FALSE, fallback |-> EthFallbackText]

\* tx.tokens_received && tx.tokens_received.length > 0 && tx.volume_usd > 0
\* faulty variant: the volume is not looked at
IsBuyAnyVolume(t) == Len(t.tokens_received) > 0

IsBuy(t) == Len(t.tokens_received) > 0 /\ t.volume_usd > 0

\* faulty variant: the ETH equivalent of a buy is taken as ethPrice / usdSpent
RECURSIVE AccumulateInverted(_, _)
AccumulateInverted(buys, k) ==
    IF k = 0
    THEN [totalUsdSpent |-> Zero, totalEthEquivalent |-> Zero, pricesFound |-> 0]
    ELSE LET acc == AccumulateInverted(buys, k - 1)
             usdSpent == Rat(buys[k].volume_usd)
             ethPrice == getEthPriceFromTransaction(buys[k])
         IN IF RLt(Zero, ethPrice)
            THEN [totalUsdSpent |-> RAdd(acc.totalUsdSpent, usdSpent),
                  totalEthEquivalent |->
                      RAdd(acc.totalEthEquivalent, RDiv(ethPrice, usdSpent)),
                  pricesFound |-> acc.pricesFound + 1]
            ELSE [acc EXCEPT !.totalUsdSpent = RAdd(acc.totalUsdSpent, usdSpent)]

\* the loop over buyTransactions: totals after the first k buys
RECURSIVE Accumulate(_, _)
Accumulate(buys, k) ==
    IF k = 0
    THEN [totalUsdSpent |-> Zero, totalEthEquivalent |-> Zero, pricesFound |-> 0]
    ELSE LET acc == Accumulate(buys, k - 1)
             usdSpent == Rat(buys[k].volume_usd)
             ethPrice == getEthPriceFromTransaction(buys[k])
         IN IF RLt(Zero, ethPrice)
            THEN [totalUsdSpent |-> RAdd(acc.totalUsdSpent, usdSpent),
                  totalEthEquivalent |->
                      RAdd(acc.totalEthEquivalent, RDiv(usdSpent, ethPrice)),
                  pricesFound |-> acc.pricesFound + 1]
            ELSE [acc EXCEPT !.totalUsdSpent = RAdd(acc.totalUsdSpent, usdSpent)]

\* faulty variant: exactly half of the buys priced is not enough
InsufficientPriceDataMajority(total, found, n) ==
    total = Zero \/ RGeq(RMul(Rat(n), <<1, 2>>), Rat(found))

\* totalEthEquivalent === 0 || pricesFound < buyTransactions.length * 0.5
InsufficientPriceData(total, found, n) ==
    total = Zero \/ RLt(Rat(found), RMul(Rat(n), <<1, 2>>))

\* Set.add keeps the first insertion of a value
SetAdd(set, x) == IF \E i \in DOMAIN set : set[i] = x THEN set ELSE Append(set, x)

RECURSIVE Flatten(_)
Flatten(txs) ==
    IF txs = <<>> THEN <<>> ELSE Head(txs).tokens_received \o Flatten(Tail(txs))

RECURSIVE AddTokens(_, _)
AddTokens(tokens, k) ==
    IF k = 0 THEN <<>>
    ELSE LET tokenSet == AddTokens(tokens, k - 1)
             token == tokens[k]
         IN IF /\ token.token_address # NullAddr
               /\ token.token_address # ETH_ADDRESS
               /\ toLowerCase(token.token_address) # ZERO_ADDRESS
            THEN SetAdd(tokenSet, toLowerCase(token.token_address))
            ELSE tokenSet

extractUniqueTokens(transactions) ==
    LET tokens == Flatten(transactions) IN AddTokens(tokens, Len(tokens))

\* a response of the balance upstream: [kind, data]
\*   "throw": the call rejects; "nodata": a payload without data; "ok": data
getCurrentEthPriceFromNansen(resp) ==
    IF resp.kind = "throw" THEN Zero
    ELSE IF resp.kind = "ok" /\ Len(resp.data) > 0
    THEN LET hits == {i \in DOMAIN resp.data :
                         /\ resp.data[i].token_address # NullAddr
                         /\ toLowerCase(resp.data[i].token_address)
                                = toLowerCase(ETH_ADDRESS)
                         /\ resp.data[i].price_usd > 0}
         IN IF hits = {} THEN Zero
            ELSE Rat(resp.data[CHOOSE i \in hits : \A j \in hits : i <= j].price_usd)
    ELSE Zero

RECURSIVE SumValueUsd(_)
SumValueUsd(balances) ==
    IF balances = <<>> THEN Zero
    ELSE RAdd(Rat(Head(balances).value_usd), SumValueUsd(Tail(balances)))

InPurchased(purchased, a) ==
    \E i \in DOMAIN purchased : toLowerCase(purchased[i]) = toLowerCase(a)

calculateCurrentPortfolioValue(resp, purchased) ==
    IF resp.kind = "throw" THEN Zero
    ELSE IF resp.kind = "nodata" \/ Len(resp.data) = 0 THEN Zero
    ELSE IF \E i \in DOMAIN resp.data : resp.data[i].token_address = NullAddr
    THEN Zero    \* null.toLowerCase() throws inside the try block
    ELSE SumValueUsd(SelectSeq(resp.data,
                LAMBDA balance : InPurchased(purchased, balance.token_address)))

PerformancePercent(portfolioValue, ethEquivalent) ==
    RMul(RDiv(RSub(portfolioValue, ethEquivalent), ethEquivalent), Rat(100))

\* faulty variant: a tie counts as UNDERPERFORMED
PerformanceStatusStrict(performancePercent) ==
    IF performancePercent[1] > 0 THEN "OUTPERFORMED" ELSE "UNDERPERFORMED"

PerformanceStatus(performancePercent) ==
    \* performancePercent >= 0 (false for NaN and -Infinity)
    IF (IF IsFinite(performancePercent) THEN RGeq(performancePercent, Zero)
        ELSE performancePercent[1] > 0)
    THEN "OUTPERFORMED" ELSE "UNDERPERFORMED"

EthSuccess(portfolioValue, ethEquivalent) ==
    LET performancePercent == PerformancePercent(portfolioValue, ethEquivalent)
    IN [type |-> "eth_benchmark", success |-> TRUE,
        data |-> [portfolioValue |-> portfolioValue,
                  ethEquivalentValue |-> ethEquivalent,
                  performancePercent |-> performancePercent,
                  status |-> PerformanceStatus(performancePercent)]]

\* the catch block of analyzeEthBenchmark
EthCatch == [pc |-> "returned", result |-> EthFallback]

----------------------------------------------------------------------------
(* Upstream answers *)

Balance(a, p, v) == [token_address |-> a, price_usd |-> p, value_usd |-> v]

EthTxUniverse ==
    { [volume_usd |-> 200, tokens_sent |-> <<Transfer(ETH_ADDRESS, 2000, 200)>>,
       tokens_received |-> <<Transfer(TokenA, 3, 200)>>],
      [volume_usd |-> 100, tokens_sent |-> <<Transfer(TokenB, NULL, NULL)>>,
       tokens_received |-> <<Transfer(TokenAMixed, NULL, NULL),
                             Transfer(ZERO_ADDRESS, NULL, NULL)>>],
      [volume_usd |-> 300, tokens_sent |-> <<>>,
       tokens_received |-> <<Transfer(ETH_UPPER, 1500, 300)>>],
      [volume_usd |-> 50, tokens_sent |-> <<Transfer(ETH_ADDRESS, 2000, 50)>>,
       tokens_received |-> <<>>],
      [volume_usd |-> 120, tokens_sent |-> <<>>,
       tokens_received |-> <<Transfer(TokenB, 4, 60)>>],
      [volume_usd |-> 0, tokens_sent |-> <<Transfer(ETH_ADDRESS, 2000, 0)>>,
       tokens_received |-> <<Transfer(TokenB, 4, 0)>>],
      [volume_usd |-> 80, tokens_sent |-> <<Transfer(ETH_ADDRESS, 0, 80)>>,
       tokens_received |-> <<Transfer(TokenB, 0 - 4, 60)>>] }

EthPriceBalanceUniverse ==
    { Balance(ETH_ADDRESS, 2500, 5000), Balance(ETH_UPPER, 2400, 4800),
      Balance(ETH_ADDRESS, 0, 0), Balance(TokenA, 3, 300) }

PortfolioBalanceUniverse ==
    { Balance(TokenA, 3, 300), Balance(TokenAMixed, 3, 250),
      Balance(ETH_ADDRESS, 2500, 5000), Balance(NullAddr, 1, 10) }

Responses(universe, n) ==
    {[kind |-> "throw", data |-> <<>>], [kind |-> "nodata", data |-> <<>>]}
        \cup {[kind |-> "ok", data |-> d] : d \in SeqsUpTo(universe, n)}

Return(r) == pc' = "returned" /\ result' = r

----------------------------------------------------------------------------
(* JavaScript Map, keyed by address *)

EmptyMap == <<>>
MapHas(m, k) == k \in DOMAIN m
MapSet(m, k, v) == [x \in DOMAIN m \cup {k} |-> IF x = k THEN v ELSE m[x]]

----------------------------------------------------------------------------
(* analyzePnl *)

\* the dash of the source text is written in ASCII
PnlFallbackText == "Only mist - too little history to read."

PnlFallback == [type |-> "pnl", success |-> FALSE, fallback |-> PnlFallbackText]

RAbs(q) == <<Abs(q[1]), q[2]>>

\* faulty variant: one small magnitude is enough
PnlNegligibleEither(pnlPercent, pnlUsd) ==
    RLt(RAbs(pnlPercent), <<1, 100>>) \/ RLt(RAbs(pnlUsd), Rat(1))

\* Math.abs(pnlPercent) < 0.01 && Math.abs(pnlUsd) < 1
PnlNegligible(pnlPercent, pnlUsd) ==
    RLt(RAbs(pnlPercent), <<1, 100>>) /\ RLt(RAbs(pnlUsd), Rat(1))

\* a response: [kind, realized_pnl_percent, realized_pnl_usd]
\*   "undefined": no response object; "nousd": realized_pnl_usd undefined
PnlResult(resp) ==
    IF resp.kind = "undefined" \/ resp.kind = "nousd" THEN PnlFallback
    ELSE LET pnlPercent == RMul(resp.realized_pnl_percent, Rat(100))
             pnlUsd == resp.realized_pnl_usd
         IN IF PnlNegligible(pnlPercent, pnlUsd) THEN PnlFallback
            ELSE [type |-> "pnl", success |-> TRUE,
                  data |-> [realized_pnl_percent |-> pnlPercent,
                            realized_pnl_usd |-> pnlUsd,
                            status |-> IF RGeq(pnlPercent, Zero) THEN "GAIN" ELSE "LOSS",
                            timeframe |-> "in the past year"]]

PnlCatch == [pc |-> "returned", result |-> PnlFallback]

PnlPercents == {Zero, <<0 - 1, 5000>>, <<1, 20000>>, <<3, 20>>}
PnlUsds == {Zero, <<0 - 12561, 100>>, <<1, 2>>, Rat(500)}

PnlResponses ==
    {[kind |-> k, realized_pnl_percent |-> Zero, realized_pnl_usd |-> Zero] :
        k \in {"throw", "undefined", "nousd"}}
    \cup [kind : {"ok"}, realized_pnl_percent : PnlPercents, realized_pnl_usd : PnlUsds]

----------------------------------------------------------------------------
(* analyzeLabels and analyzeSmartMoney (PRD implementation) *)

LABEL_PRIORITY ==
    << "Top 100 Leaderboard Trader", "Multiple Memecoin Whales", "Memecoin Whale",
       "Smart Fund", "Token Millionaire",
       "ETH Millionaire", "New Token Specialist", "Memecoin Specialist",
       "Gaming Specialist", "AI Specialist", "DEX Specialist", "RWA Specialist",
       "Smart NFT Trader", "Smart NFT Collector", "Smart NFT Minter",
       "Smart NFT Early Adopter",
       "Top Token Deployer", "Token Deployer", "Emerging Smart Trader",
       "Arbitrum Specialist", "Base Specialist", "Blast Specialist",
       "Optimism Specialist", "Polygon Specialist", "Linea Specialist",
       "Scroll Specialist", "Fantom Specialist", "Sei Specialist",
       "ZKsync Specialist", "BSC Specialist", "Avalanche Specialist",
       "Staker", "OpenSea User", "Blur Trader", "Exit Liquidity" >>

SMART_MONEY_PRIORITY ==
    << "Smart Trader (2Y)", "180D Smart Trader", "90D Smart Trader", "30D Smart Trader" >>

SMART_MONEY_KEYWORDS ==
    << "Smart Fund", "Smart NFT Trader", "Smart NFT Collector", "Smart NFT Minter",
       "Smart NFT Early Adopter" >>

NullFallback == "null"

LabelsFallback == [type |-> "labels", success |-> FALSE, fallback |-> NullFallback]
SmartMoneyFallback == [type |-> "smart_money", success |-> FALSE, fallback |-> NullFallback]

\* array.includes(x)
Includes(array, x) == \E i \in DOMAIN array : array[i] = x

\* faulty variant: the first of the strings that is on the list decides
FirstIncludedInAnswerOrder(priority, strings) ==
    LET hits == {i \in DOMAIN strings : Includes(priority, strings[i])}
    IN IF hits = {} THEN 0
       ELSE LET first == CHOOSE i \in hits : \A j \in hits : i <= j
            IN CHOOSE k \in DOMAIN priority : priority[k] = strings[first]

\* for (const p of priority) { if (strings.includes(p)) return p }: index or 0
FirstIncluded(priority, strings) ==
    LET hits == {k \in DOMAIN priority : Includes(strings, priority[k])}
    IN IF hits = {} THEN 0 ELSE CHOOSE k \in hits : \A j \in hits : k <= j

LabelStrings(items) == [i \in DOMAIN items |-> items[i].label]

\* a response: [kind, data]; "notarray": undefined or not an array
LabelsResult(resp) ==
    IF resp.kind = "notarray" \/ Len(resp.data) = 0 THEN LabelsFallback
    ELSE LET k == FirstIncluded(LABEL_PRIORITY, LabelStrings(resp.data))
         IN IF k # 0
            THEN [type |-> "labels", success |-> TRUE,
                  data |-> [label |-> LABEL_PRIORITY[k]]]
            ELSE LabelsFallback

LabelsCatch == [pc |-> "returned", result |-> LabelsFallback]

SmartMoneySuccess(labels) ==
    [type |-> "smart_money", success |-> TRUE,
     data |-> [isSmartMoney |-> TRUE, labels |-> labels]]

SmartMoneyResult(resp) ==
    IF resp.kind = "notarray" \/ Len(resp.data) = 0 THEN SmartMoneyFallback
    ELSE LET smartMoneyLabels ==
                 SelectSeq(resp.data, LAMBDA item : item.category = "smart_money")
             allLabelStrings == LabelStrings(resp.data)
         IN IF Len(smartMoneyLabels) > 0
            THEN LET k == FirstIncluded(SMART_MONEY_PRIORITY,
                                        LabelStrings(smartMoneyLabels))
                 IN IF k # 0 THEN SmartMoneySuccess(<<SMART_MONEY_PRIORITY[k]>>)
                    ELSE SmartMoneySuccess(LabelStrings(smartMoneyLabels))
            ELSE LET k == FirstIncluded(SMART_MONEY_PRIORITY, allLabelStrings)
                     w == FirstIncluded(SMART_MONEY_KEYWORDS, allLabelStrings)
                 IN IF k # 0 THEN SmartMoneySuccess(<<SMART_MONEY_PRIORITY[k]>>)
                    ELSE IF w # 0 THEN SmartMoneySuccess(<<SMART_MONEY_KEYWORDS[w]>>)
                    ELSE SmartMoneyFallback

SmartMoneyCatch == [pc |-> "returned", result |-> SmartMoneyFallback]

LabelItem(l, c) == [label |-> l, category |-> c]

LabelUniverse ==
    { LabelItem("Memecoin Whale", "behavioral"), LabelItem("Staker", "defi"),
      LabelItem("Staker Pro", "defi"), LabelItem("staker", "defi"),
      LabelItem("30D Smart Trader", "smart_money"),
      LabelItem("Smart Trader (2Y)", "others"),
      LabelItem("Smart Fund", "smart_money") }

LabelResponses ==
    {[kind |-> "throw", data |-> <<>>], [kind |-> "notarray", data |-> <<>>]}
        \cup {[kind |-> "ok", data |-> d] : d \in SeqsUpTo(LabelUniverse, MaxLabels)}

----------------------------------------------------------------------------
(* analyzeRuggedProjects *)

LIQUIDITY_THRESHOLD == 10000
MIN_VALUE_USD == 5

\* the dash of the source text is written in ASCII
RuggedFallbackText == "No rugged projects detected - clear skies ahead"

\* the object of the three early returns and of the catch block
RuggedClearSkies ==
    [type |-> "rugged_projects", success |-> TRUE,
     data |-> [ruggedCount |-> 0, ruggedTokens |-> <<>>],
     fallback |-> RuggedFallbackText]

RuggedCatch == [pc |-> "returned", result |-> RuggedClearSkies]

\* holdings.filter(not native).map(token_address)
RuggedTokenAddresses(holdings) ==
    LET kept == SelectSeq(holdings, LAMBDA holding :
                    /\ holding.token_address # NullAddr
                    /\ toLowerCase(holding.token_address) # ETH_ADDRESS)
    IN [i \in DOMAIN kept |-> kept[i].token_address]

\* token.liquidity_usd || token.liquidity
RuggedTokenDetails(ruggedTokens) ==
    [i \in DOMAIN ruggedTokens |->
        [name |-> ruggedTokens[i].token_name,
         symbol |-> ruggedTokens[i].token_symbol,
         liquidity |-> IF ruggedTokens[i].liquidity_usd # NULL
                          /\ ruggedTokens[i].liquidity_usd # 0
                       THEN ruggedTokens[i].liquidity_usd
                       ELSE ruggedTokens[i].liquidity]]

\* faulty variant: nothing flagged is reported as a failure
RuggedResultFailOnEmpty(resp) ==
    LET ruggedTokens == IF resp.kind = "ok" THEN resp.items ELSE <<>>
    IN IF Len(ruggedTokens) = 0
       THEN [type |-> "rugged_projects", success |-> FALSE,
             fallback |-> RuggedFallbackText]
       ELSE [type |-> "rugged_projects", success |-> TRUE,
             data |-> [ruggedCount |-> Len(ruggedTokens),
                       ruggedTokens |-> RuggedTokenDetails(ruggedTokens)]]

\* a screener response: [kind, items]; "nodata": a payload without data.items
RuggedResult(resp) ==
    LET ruggedTokens == IF resp.kind = "ok" THEN resp.items ELSE <<>>
    IN IF Len(ruggedTokens) = 0 THEN RuggedClearSkies
       ELSE [type |-> "rugged_projects", success |-> TRUE,
             data |-> [ruggedCount |-> Len(ruggedTokens),
                       ruggedTokens |-> RuggedTokenDetails(ruggedTokens)]]

Holding(a, c, v, b) == [token_address |-> a, chain |-> c, value_usd |-> v, balance |-> b]

HoldingUniverse ==
    { Holding(TokenA, "ethereum", 100, <<"1", "0">>),
      Holding(TokenB, "polygon", 50, <<"5">>),
      Holding(ETH_UPPER, "ethereum", 5000, <<"2">>),
      Holding(TokenAMixed, "ethereum", 0, <<"1">>),
      Holding(ZKSYNC_ETH, "zksync", 70, <<"3">>) }

Screened(a, n, s, lu, l) ==
    [token_address |-> a, token_name |-> n, token_symbol |-> s,
     liquidity_usd |-> lu, liquidity |-> l]

\* the last one is a token whose liquidity is gone altogether
ScreenedUniverse ==
    { Screened(TokenA, "Token A", "AAA", 5000, NULL),
      Screened(TokenB, "Token B", "BBB", NULL, 900),
      Screened(TokenB, "Token C", "CCC", 0, 9999),
      Screened(TokenA, "Token D", "DDD", 0, 0) }

ScreenerResponses ==
    {[kind |-> k, items |-> <<>>] : k \in {"throw", "undefined", "nodata"}}
        \cup {[kind |-> "ok", items |-> d] : d \in SeqsUpTo(ScreenedUniverse, MaxItems)}

----------------------------------------------------------------------------
(* analyzePortfolioATH (cached) *)

AthFallbackText == "No meaningful history yet for young/empty wallets"

AthFallback == [type |-> "portfolio_ath", success |-> FALSE, fallback |-> AthFallbackText]

\* faulty variant: the error is thrown on to the caller
AthCatchRethrow == [pc |-> "threw", result |-> NoResult]

AthCatch == [pc |-> "returned", result |-> AthFallback]

NaN == <<0, 0>>

DigitValue(c) ==
    CASE c = "0" -> 0 [] c = "1" -> 1 [] c = "2" -> 2 [] c = "3" -> 3 [] c = "4" -> 4
      [] c = "5" -> 5 [] c = "6" -> 6 [] c = "7" -> 7 [] c = "8" -> 8 [] c = "9" -> 9
      [] OTHER -> NULL

\* parseFloat of a string of decimal digits; NaN when it does not start with one
RECURSIVE ParseDigits(_, _)
ParseDigits(str, acc) ==
    IF str = <<>> \/ DigitValue(Head(str)) = NULL THEN acc
    ELSE ParseDigits(Tail(str), acc * 10 + DigitValue(Head(str)))

parseFloat(str) ==
    IF str = <<>> \/ DigitValue(Head(str)) = NULL THEN NaN ELSE Rat(ParseDigits(str, 0))

\* faulty variant: holdings without value survive the filter
IsTokenHoldingAnyValue(holding) ==
    /\ holding.token_address # NullAddr
    /\ toLowerCase(holding.token_address) # ETH_ADDRESS
    /\ toLowerCase(holding.token_address) # ZKSYNC_ETH
    /\ holding.chain # ""

IsTokenHolding(holding) ==
    /\ holding.token_address # NullAddr
    /\ toLowerCase(holding.token_address) # ETH_ADDRESS
    /\ toLowerCase(holding.token_address) # ZKSYNC_ETH
    /\ holding.chain # ""
    /\ holding.value_usd > 0

RECURSIVE SumHoldingValue(_)
SumHoldingValue(hs) ==
    IF hs = <<>> THEN Zero
    ELSE RAdd(Rat(Head(hs).value_usd), SumHoldingValue(Tail(hs)))

Absent == [athPrice |-> NULL, athDate |-> NULL]

\* the time to live of a cache entry, in hours
CACHE_TTL_HOURS == 24

AthRecord(athPrice, athDate) == [athPrice |-> athPrice, athDate |-> athDate]

\* a cache entry: the record and the time it was stored
CacheEntry(athPrice, athDate, cachedAt) ==
    [athPrice |-> athPrice, athDate |-> athDate, cachedAt |-> cachedAt]

\* the entry is older than the time to live
Expired(entry, time) == time - entry.cachedAt > CACHE_TTL_HOURS

\* athCache.get(tokenAddress): the record stored under the lower-cased address,
\* absent when there is none or when it has expired; the map is left as it is
athCacheGet(cache, tokenAddress, time) ==
    LET key == toLowerCase(tokenAddress)
    IN IF MapHas(cache, key) /\ ~Expired(cache[key], time)
       THEN AthRecord(cache[key].athPrice, cache[key].athDate)
       ELSE Absent

\* faulty variant: an entry is stored whatever the price
athCacheSetAnyPrice(cache, tokenAddress, athPrice, athDate, time) ==
    MapSet(cache, toLowerCase(tokenAddress), CacheEntry(athPrice, athDate, time))

\* athCache.set(tokenAddress, athPrice, athDate): only when athPrice > 0; the
\* entry is stamped with the current time
athCacheSet(cache, tokenAddress, athPrice, athDate, time) ==
    IF athPrice > 0
    THEN MapSet(cache, toLowerCase(tokenAddress), CacheEntry(athPrice, athDate, time))
    ELSE cache

\* faulty variant: athPrices is keyed by the address as the holding spells it
CachedPricesAsSpelled(cache, hs, time) ==
    LET hit == {i \in DOMAIN hs : athCacheGet(cache, hs[i].token_address, time) # Absent}
    IN [k \in {hs[i].token_address : i \in hit} |-> athCacheGet(cache, k, time)]

\* the "Check cache first" loop: athPrices after the cache hits
CachedPrices(cache, hs, time) ==
    LET hit == {i \in DOMAIN hs : athCacheGet(cache, hs[i].token_address, time) # Absent}
    IN [k \in {toLowerCase(hs[i].token_address) : i \in hit} |->
           athCacheGet(cache, k, time)]

\* faulty variant: every holding is fetched, cached or not
TokensToFetchAll(cache, hs, time) ==
    SelectSeq(hs, LAMBDA holding : holding.token_address # NullAddr)

TokensToFetch(cache, hs, time) ==
    SelectSeq(hs, LAMBDA holding :
                      athCacheGet(cache, holding.token_address, time) = Absent)

\* faulty variant: writing over an entry keeps the date that was there
RECURSIVE StoreFetchedTorn(_, _, _, _)
StoreFetchedTorn(prices, cache, fetched, time) ==
    IF DOMAIN fetched = {} THEN [athPrices |-> prices, athCache |-> cache]
    ELSE LET address == CHOOSE a \in DOMAIN fetched : TRUE
             athData == fetched[address]
             rest == [a \in DOMAIN fetched \ {address} |-> fetched[a]]
         IN StoreFetchedTorn(MapSet(prices, address, athData),
                             IF athData.athPrice > 0 /\ athData.athDate # NULL
                             THEN athCacheSet(cache, address, athData.athPrice,
                                              IF MapHas(cache, address)
                                              THEN cache[address].athDate
                                              ELSE athData.athDate, time)
                             ELSE cache,
                             rest, time)

\* the loop over fetchedPrices.entries(): athPrices.set, then athCache.set if valid
RECURSIVE StoreFetched(_, _, _, _)
StoreFetched(prices, cache, fetched, time) ==
    IF DOMAIN fetched = {} THEN [athPrices |-> prices, athCache |-> cache]
    ELSE LET address == CHOOSE a \in DOMAIN fetched : TRUE
             athData == fetched[address]
             rest == [a \in DOMAIN fetched \ {address} |-> fetched[a]]
         IN StoreFetched(MapSet(prices, address, athData),
                         IF athData.athPrice > 0 /\ athData.athDate # NULL
                         THEN athCacheSet(cache, address, athData.athPrice,
                                          athData.athDate, time)
                         ELSE cache,
                         rest, time)

\* faulty variant: a holding without an ATH record adds nothing
RECURSIVE AthTotalsHitsOnly(_, _, _)
AthTotalsHitsOnly(hs, prices, k) ==
    IF k = 0 THEN [athValue |-> Zero, successfulTokens |-> 0]
    ELSE LET acc == AthTotalsHitsOnly(hs, prices, k - 1)
             holding == hs[k]
             key == toLowerCase(holding.token_address)
         IN IF MapHas(prices, key) /\ prices[key].athPrice > 0
            THEN [athValue |-> RAdd(acc.athValue,
                                    RMul(parseFloat(holding.balance),
                                         Rat(prices[key].athPrice))),
                  successfulTokens |-> acc.successfulTokens + 1]
            ELSE acc

\* Step 4: athValue and successfulTokens after the first k holdings
RECURSIVE AthTotals(_, _, _)
AthTotals(hs, prices, k) ==
    IF k = 0 THEN [athValue |-> Zero, successfulTokens |-> 0]
    ELSE LET acc == AthTotals(hs, prices, k - 1)
             holding == hs[k]
             key == toLowerCase(holding.token_address)
         IN IF MapHas(prices, key) /\ prices[key].athPrice > 0
            THEN [athValue |-> RAdd(acc.athValue,
                                    RMul(parseFloat(holding.balance),
                                         Rat(prices[key].athPrice))),
                  successfulTokens |-> acc.successfulTokens + 1]
            ELSE [acc EXCEPT !.athValue = RAdd(acc.athValue, Rat(holding.value_usd))]

\* faulty variant: the count of ATH hits is not looked at
AthResultUnchecked(hs, current, prices) ==
    LET totals == AthTotals(hs, prices, Len(hs))
    IN [type |-> "portfolio_ath", success |-> TRUE,
        data |-> [currentValue |-> current,
                  athValue |-> totals.athValue,
                  potentialGainPercent |->
                      RMul(RDiv(RSub(totals.athValue, current), current), Rat(100))]]

AthResult(hs, current, prices) ==
    LET totals == AthTotals(hs, prices, Len(hs))
    IN IF totals.successfulTokens = 0 THEN AthFallback
       ELSE [type |-> "portfolio_ath", success |-> TRUE,
             data |-> [currentValue |-> current,
                       athValue |-> totals.athValue,
                       potentialGainPercent |->
                           RMul(RDiv(RSub(totals.athValue, current), current), Rat(100))]]

\* the records the price upstream may give: none found, two found ones, and a
\* price without its date
AthAnswers ==
    { AthRecord(0, NULL), AthRecord(20, 1), AthRecord(25, 2), AthRecord(20, NULL) }

\* what batchGetATHPrices may resolve to for the tokens asked: a Map keyed by the
\* lower-cased address, with an entry for some of them
FetchedMaps(tokens) ==
    LET keys == {toLowerCase(tokens[i].token_address) : i \in DOMAIN tokens}
    IN UNION {[ks -> AthAnswers] : ks \in SUBSET keys}

\* the cache an earlier run of the process may have left: empty, a fresh entry
\* (one hour old at time 0) or an expired one
InitialCaches ==
    { EmptyMap,
      athCacheSet(EmptyMap, TokenAMixed, 30, 1, 0 - 1),
      athCacheSet(EmptyMap, TokenAMixed, 30, 1, 0 - (CACHE_TTL_HOURS + 1)) }

----------------------------------------------------------------------------
(* analyzeEthBenchmark: one action per upstream call; each runs the code   *)
(* from the call to the next await or return                               *)

\* the outcome of each upstream call of the run ("last": of the latest call) and
\* the balance entries the wallet holds when the portfolio value is asked for
\* for analyzePortfolioATH also the tokens asked of the price upstream and the
\* Map it resolved to; "answer": the latest answer of the other analyzers, whole
NoUpstream == [transactions |-> "none", ethPrice |-> "none", portfolio |-> "none",
               balances |-> <<>>, last |-> "none", asked |-> <<>>, fetched |-> EmptyMap,
               answer |-> <<>>]

OtherIdle ==
    /\ tokenAddresses = <<>>
    /\ tokenHoldings = <<>>
    /\ currentValue = Zero
    /\ athPrices = EmptyMap

\* the upstream calls of analyzeEthBenchmark
EthTransactionsCall == "nansen.getAllTransactions"
\* faulty variant: the current ETH price is asked of the price upstream
EthPriceCallCoinGecko == "coingecko.getCurrentPrice"
EthPriceCall == "nansen.getCurrentBalance(ethereum)"
EthPortfolioCall == "nansen.getCurrentBalance(all)"

EthIdle ==
    /\ buyTransactions = <<>>
    /\ totalUsdSpent = Zero
    /\ totalEthEquivalent = Zero
    /\ pricesFound = 0
    /\ purchasedTokens = <<>>
    /\ currentEthPrice = Zero
    /\ ethEquivalentValue = Zero

NoOutcome == [threw |-> FALSE, value |-> <<>>]

CliIdle ==
    /\ cliEntry = "none" /\ cliInput = <<>> /\ cliPc = "start"
    /\ cliAddress = NoOutcome /\ cliInvoked = <<>>

NoGet == [address |-> NullAddr, record |-> Absent, at |-> 0]

PageIdle == priceService = <<>> /\ paging = <<>>

ConcIdle ==
    /\ runs = <<>> /\ wallet = <<>> /\ scenario = <<>>
    /\ lastSet = EmptyMap /\ got = NoGet
    /\ PageIdle

TxIdle == tx = NoTx /\ txPrice = Zero /\ txDone = FALSE

\* Step 1-4 once getAllTransactions has settled: buy filter, accumulation,
\* coverage check
EthTransactionsArrive(resp) ==
         /\ upstream' = [upstream EXCEPT !.transactions = resp.kind, !.last = resp.kind]
         /\ IF resp.kind = "throw"
            THEN /\ pc' = EthCatch.pc /\ result' = EthCatch.result
                 /\ UNCHANGED ethVars
            ELSE IF resp.kind = "nodata" \/ Len(resp.data) = 0
            THEN Return(EthFallback) /\ UNCHANGED ethVars
            ELSE LET buys == SelectSeq(resp.data, IsBuy)
                     acc == Accumulate(buys, Len(buys))
                 IN IF Len(buys) = 0
                    THEN Return(EthFallback) /\ UNCHANGED ethVars
                    ELSE /\ buyTransactions' = buys
                         /\ totalUsdSpent' = acc.totalUsdSpent
                         /\ totalEthEquivalent' = acc.totalEthEquivalent
                         /\ pricesFound' = acc.pricesFound
                         /\ IF InsufficientPriceData(acc.totalEthEquivalent,
                                                     acc.pricesFound, Len(buys))
                            THEN /\ Return(EthFallback)
                                 /\ UNCHANGED <<purchasedTokens, currentEthPrice,
                                                ethEquivalentValue>>
                            ELSE /\ purchasedTokens' = extractUniqueTokens(buys)
                                 /\ pc' = "getCurrentEthPrice"
                                 /\ UNCHANGED <<result, currentEthPrice,
                                                ethEquivalentValue>>

\* Step 1-4: getAllTransactions, buy filter, accumulation, coverage check
EthGetAllTransactions ==
    /\ analyzer = "eth_benchmark" /\ pc = "start"
    /\ calls' = Append(calls, EthTransactionsCall)
    /\ \E resp \in Responses(EthTxUniverse, MaxTxs) : EthTransactionsArrive(resp)
    /\ UNCHANGED <<analyzer, auxVars, txVars, otherVars>>

\* Step 5-6: current ETH price from the balance upstream
EthGetCurrentEthPrice ==
    /\ analyzer = "eth_benchmark" /\ pc = "getCurrentEthPrice"
    /\ calls' = Append(calls, EthPriceCall)
    /\ \E resp \in Responses(EthPriceBalanceUniverse, MaxBalances) :
         LET price == getCurrentEthPriceFromNansen(resp)
         IN /\ upstream' = [upstream EXCEPT !.ethPrice = resp.kind, !.last = resp.kind]
            /\ currentEthPrice' = price
            /\ IF price = Zero
               THEN Return(EthFallback) /\ UNCHANGED ethEquivalentValue
               ELSE /\ ethEquivalentValue' = RMul(totalEthEquivalent, price)
                    /\ pc' = "calculateCurrentPortfolioValue"
                    /\ UNCHANGED result
    /\ UNCHANGED <<analyzer, auxVars, txVars, otherVars, buyTransactions, totalUsdSpent,
                   totalEthEquivalent, pricesFound, purchasedTokens>>

\* Step 7-10: current portfolio value, performance, result
EthCalculatePortfolioValue ==
    /\ analyzer = "eth_benchmark" /\ pc = "calculateCurrentPortfolioValue"
    /\ calls' = Append(calls, EthPortfolioCall)
    /\ \E kind \in {"throw", "nodata", "ok"} :
       \E balances \in SeqsUpTo(PortfolioBalanceUniverse, MaxBalances) :
         LET resp == [kind |-> kind, data |-> balances]
             portfolioValue == calculateCurrentPortfolioValue(resp, purchasedTokens)
         IN /\ upstream' = [upstream EXCEPT !.portfolio = kind, !.balances = balances,
                                          !.last = kind]
            /\ Return(EthSuccess(portfolioValue, ethEquivalentValue))
    /\ UNCHANGED <<analyzer, auxVars, txVars, otherVars, ethVars>>

NextEth == EthGetAllTransactions \/ EthGetCurrentEthPrice \/ EthCalculatePortfolioValue

----------------------------------------------------------------------------
(* analyzePnl, analyzeLabels, analyzeSmartMoney: one upstream call each *)

AnalyzePnl ==
    /\ analyzer = "pnl" /\ pc = "start"
    /\ calls' = Append(calls, "nansen.getPnlSummary")
    /\ \E resp \in PnlResponses :
         /\ upstream' = [upstream EXCEPT !.last = resp.kind, !.answer = resp]
         /\ IF resp.kind = "throw"
            THEN pc' = PnlCatch.pc /\ result' = PnlCatch.result
            ELSE Return(PnlResult(resp))
    /\ UNCHANGED <<analyzer, auxVars, ethVars, otherVars, txVars>>

AnalyzeLabels ==
    /\ analyzer = "labels" /\ pc = "start"
    /\ calls' = Append(calls, "nansen.getLabels")
    /\ \E resp \in LabelResponses :
         /\ upstream' = [upstream EXCEPT !.last = resp.kind, !.answer = resp]
         /\ IF resp.kind = "throw"
            THEN pc' = LabelsCatch.pc /\ result' = LabelsCatch.result
            ELSE Return(LabelsResult(resp))
    /\ UNCHANGED <<analyzer, auxVars, ethVars, otherVars, txVars>>

AnalyzeSmartMoney ==
    /\ analyzer = "smart_money" /\ pc = "start"
    /\ calls' = Append(calls, "nansen.getLabels")
    /\ \E resp \in LabelResponses :
         /\ upstream' = [upstream EXCEPT !.last = resp.kind, !.answer = resp]
         /\ IF resp.kind = "throw"
            THEN pc' = SmartMoneyCatch.pc /\ result' = SmartMoneyCatch.result
            ELSE Return(SmartMoneyResult(resp))
    /\ UNCHANGED <<analyzer, auxVars, ethVars, otherVars, txVars>>

----------------------------------------------------------------------------
(* analyzeRuggedProjects *)

RuggedGetCurrentBalance ==
    /\ analyzer = "rugged_projects" /\ pc = "start"
    /\ calls' = Append(calls, "nansen.getCurrentBalance(all)")
    /\ \E resp \in Responses(HoldingUniverse, MaxBalances) :
         /\ upstream' = [upstream EXCEPT !.last = resp.kind, !.balances = resp.data]
         /\ IF resp.kind = "throw"
            THEN /\ pc' = RuggedCatch.pc /\ result' = RuggedCatch.result
                 /\ UNCHANGED tokenAddresses
            ELSE IF resp.kind = "nodata" \/ Len(resp.data) = 0
            THEN Return(RuggedClearSkies) /\ UNCHANGED tokenAddresses
            ELSE /\ tokenAddresses' = RuggedTokenAddresses(resp.data)
                 /\ IF Len(tokenAddresses') = 0
                    THEN Return(RuggedClearSkies)
                    ELSE pc' = "screenTokens" /\ UNCHANGED result
    /\ UNCHANGED <<analyzer, auxVars, ethVars, athVars, txVars>>

RuggedScreenTokens ==
    /\ analyzer = "rugged_projects" /\ pc = "screenTokens"
    /\ calls' = Append(calls, "nansen.screenTokens")
    /\ \E resp \in ScreenerResponses :
         /\ upstream' = [upstream EXCEPT !.last = resp.kind, !.answer = resp]
         /\ IF resp.kind = "throw" \/ resp.kind = "undefined"
            THEN pc' = RuggedCatch.pc /\ result' = RuggedCatch.result
            ELSE Return(RuggedResult(resp))
    /\ UNCHANGED <<analyzer, auxVars, ethVars, otherVars, txVars>>

----------------------------------------------------------------------------
(* analyzePortfolioATH *)

AthGetCurrentBalance ==
    /\ analyzer = "portfolio_ath" /\ pc = "start"
    /\ calls' = Append(calls, "nansen.getCurrentBalance(all)")
    /\ \E resp \in Responses(HoldingUniverse, MaxBalances) :
         /\ upstream' = [upstream EXCEPT !.last = resp.kind, !.balances = resp.data]
         /\ IF resp.kind = "throw"
            THEN /\ pc' = AthCatch.pc /\ result' = AthCatch.result
                 /\ UNCHANGED athVars
            ELSE IF resp.kind = "nodata" \/ Len(resp.data) = 0
            THEN Return(AthFallback) /\ UNCHANGED athVars
            ELSE LET hs == SelectSeq(resp.data, IsTokenHolding)
                 IN IF Len(hs) = 0
                    THEN Return(AthFallback) /\ UNCHANGED athVars
                    ELSE /\ tokenHoldings' = hs
                         /\ currentValue' = SumHoldingValue(hs)
                         /\ athPrices' = CachedPrices(athCache, hs, now)
                         /\ UNCHANGED athCache
                         /\ IF Len(TokensToFetch(athCache, hs, now)) > 0
                            THEN pc' = "batchGetATHPrices" /\ UNCHANGED result
                            ELSE Return(AthResult(hs, currentValue', athPrices'))
    /\ UNCHANGED <<analyzer, auxVars, ethVars, tokenAddresses, txVars>>

AthBatchGetATHPrices ==
    /\ analyzer = "portfolio_ath" /\ pc = "batchGetATHPrices"
    /\ calls' = Append(calls, "coingecko.batchGetATHPrices")
    /\ \/ /\ upstream' = [upstream EXCEPT !.last = "throw",
                                   !.asked = TokensToFetch(athCache, tokenHoldings, now)]
          /\ pc' = AthCatch.pc /\ result' = AthCatch.result
          /\ UNCHANGED athVars
       \/ \E fetched \in FetchedMaps(TokensToFetch(athCache, tokenHoldings, now)) :
            LET stored == StoreFetched(athPrices, athCache, fetched, now)
            IN /\ upstream' = [upstream EXCEPT !.last = "ok", !.fetched = fetched,
                                   !.asked = TokensToFetch(athCache, tokenHoldings, now)]
               /\ athPrices' = stored.athPrices
               /\ athCache' = stored.athCache
               /\ Return(AthResult(tokenHoldings, currentValue, stored.athPrices))
               /\ UNCHANGED <<tokenHoldings, currentValue>>
    /\ UNCHANGED <<analyzer, auxVars, ethVars, tokenAddresses, txVars>>

NextOthers ==
    \/ AnalyzePnl \/ AnalyzeLabels \/ AnalyzeSmartMoney
    \/ RuggedGetCurrentBalance \/ RuggedScreenTokens
    \/ AthGetCurrentBalance \/ AthBatchGetATHPrices

----------------------------------------------------------------------------
(* The pure-function specification: getEthPriceFromTransaction on one buy *)

ApplyGetEthPrice ==
    /\ analyzer = "none" /\ ~txDone
    /\ txPrice' = getEthPriceFromTransaction(tx)
    /\ txDone' = TRUE
    /\ UNCHANGED <<runVars, ethVars, otherVars, auxVars, tx>>

InitTx ==
    /\ analyzer = "none" /\ pc = "start" /\ calls = <<>> /\ result = NoResult
    /\ upstream = NoUpstream
    /\ EthIdle
    /\ OtherIdle /\ athCache = EmptyMap /\ now = 0
    /\ CliIdle /\ ConcIdle
    /\ tx \in TxInputs /\ txPrice = Zero /\ txDone = FALSE

SpecTx == InitTx /\ [][ApplyGetEthPrice]_vars

----------------------------------------------------------------------------
(* The entry points: the two test scripts and the test-runner CLI *)

Scripts == {"test-getall", "test-specific"}
Entries == Scripts \cup {"test-runner"}

\* the order in which every entry point invokes the analyzers
AnalyzerOrder ==
    <<"pnl", "labels", "smart_money", "rugged_projects", "eth_benchmark", "portfolio_ath">>

\* the characters of the address inputs: a digit, the x of the prefix, a hex
\* letter in both cases, a letter that is no hex digit, and white space
AddrChars == {"0", "x", "a", "A", "g", " "}

InputStrings == SeqsUpTo(AddrChars, HexLen + 2 + MaxPad)

\* the arguments given to the test runner: a well-formed address and two malformed ones
ArgUniverse == { TokenAMixed, <<"0", "x", "g">>, <<"a", "a">> }

Invocation(a, address) == [analyzer |-> a, address |-> address]

\* runTests of a test script: validateAndNormalizeAddress(TEST_WALLET) inside the
\* try block whose catch ends the process
CliValidate ==
    /\ cliEntry \in Scripts /\ cliPc = "start"
    /\ cliAddress' = validateAndNormalizeAddress(cliInput[1])
    /\ cliPc' = IF cliAddress'.threw THEN "exit" ELSE "analyze"
    /\ UNCHANGED <<cliEntry, cliInput, cliInvoked>>
    /\ UNCHANGED <<runVars, ethVars, otherVars, txVars, now, concVars>>

\* runTests: the next await of an analyzer, with the normalized address
CliScriptAnalyze ==
    /\ cliEntry \in Scripts /\ cliPc = "analyze"
    /\ cliInvoked' = Append(cliInvoked,
                            Invocation(AnalyzerOrder[Len(cliInvoked) + 1],
                                       cliAddress.value))
    /\ cliPc' = IF Len(cliInvoked') = Len(AnalyzerOrder) THEN "done" ELSE "analyze"
    /\ UNCHANGED <<cliEntry, cliInput, cliAddress>>
    /\ UNCHANGED <<runVars, ethVars, otherVars, txVars, now, concVars>>

\* main of the test runner: the usage exit without arguments, else the loop
CliRunnerMain ==
    /\ cliEntry = "test-runner" /\ cliPc = "start"
    /\ cliPc' = IF Len(cliInput) = 0 THEN "exit" ELSE "analyze"
    /\ UNCHANGED <<cliEntry, cliInput, cliAddress, cliInvoked>>
    /\ UNCHANGED <<runVars, ethVars, otherVars, txVars, now, concVars>>

\* testWallet(args[i]) -> runAllFunFacts(address): the next await of an analyzer
CliRunnerAnalyze ==
    /\ cliEntry = "test-runner" /\ cliPc = "analyze"
    /\ LET i == (Len(cliInvoked) \div Len(AnalyzerOrder)) + 1
           k == (Len(cliInvoked) % Len(AnalyzerOrder)) + 1
       IN cliInvoked' = Append(cliInvoked, Invocation(AnalyzerOrder[k], cliInput[i]))
    /\ cliPc' = IF Len(cliInvoked') = Len(cliInput) * Len(AnalyzerOrder)
                THEN "done" ELSE "analyze"
    /\ UNCHANGED <<cliEntry, cliInput, cliAddress>>
    /\ UNCHANGED <<runVars, ethVars, otherVars, txVars, now, concVars>>

NextCli == CliValidate \/ CliScriptAnalyze \/ CliRunnerMain \/ CliRunnerAnalyze

InitCli ==
    /\ analyzer = "none" /\ pc = "start" /\ calls = <<>> /\ result = NoResult
    /\ upstream = NoUpstream
    /\ EthIdle
    /\ OtherIdle /\ athCache = EmptyMap /\ now = 0
    /\ TxIdle
    /\ cliEntry \in Entries
    /\ cliInput \in (IF cliEntry \in Scripts THEN {<<str>> : str \in InputStrings}
                     ELSE SeqsUpTo(ArgUniverse, MaxArgs))
    /\ cliPc = "start" /\ cliAddress = NoOutcome /\ cliInvoked = <<>>
    /\ ConcIdle

SpecCli == InitCli /\ [][NextCli]_vars

----------------------------------------------------------------------------
(* The Price Cache on its own: sets, gets and the passing of time *)

\* one advance of the clock: half the time to live, so that an entry is seen
\* young, exactly as old as the time to live, and older
TickHours == CACHE_TTL_HOURS \div 2

Tick ==
    /\ now < MaxTicks * TickHours
    /\ now' = now + TickHours
    /\ UNCHANGED <<runVars, ethVars, otherVars, txVars, cliVars, concVars>>

\* the addresses the cache is called with: two spellings of one token, and another
CacheAddresses == {TokenA, TokenAMixed, TokenB}

\* the latest set of every entry of a cache
SetsOf(cache) ==
    [k \in DOMAIN cache |->
        [record |-> AthRecord(cache[k].athPrice, cache[k].athDate),
         at |-> cache[k].cachedAt]]

CacheSet ==
    /\ \E address \in CacheAddresses, athPrice \in {0, 20, 25}, athDate \in {1, 2} :
         /\ athCache' = athCacheSet(athCache, address, athPrice, athDate, now)
         /\ lastSet' = IF athPrice > 0
                       THEN MapSet(lastSet, toLowerCase(address),
                                   [record |-> AthRecord(athPrice, athDate), at |-> now])
                       ELSE lastSet
    /\ UNCHANGED <<runVars, ethVars, tokenAddresses, tokenHoldings, currentValue,
                   athPrices, txVars, now, cliVars, runs, wallet, scenario, got,
                   pageVars>>

CacheGet ==
    /\ \E address \in CacheAddresses :
         got' = [address |-> address,
                 record |-> athCacheGet(athCache, address, now), at |-> now]
    /\ UNCHANGED <<runVars, ethVars, otherVars, txVars, now, cliVars,
                   runs, wallet, scenario, lastSet,
                   pageVars>>

NextCacheOps == CacheSet \/ CacheGet \/ Tick

InitCacheOps ==
    /\ analyzer = "none" /\ pc = "start" /\ calls = <<>> /\ result = NoResult
    /\ upstream = NoUpstream
    /\ EthIdle
    /\ OtherIdle /\ athCache \in InitialCaches /\ now = 0
    /\ TxIdle /\ CliIdle
    /\ runs = <<>> /\ wallet = <<>> /\ scenario = <<>>
    /\ lastSet = SetsOf(athCache) /\ got = NoGet
    /\ PageIdle

SpecCacheOps == InitCacheOps /\ [][NextCacheOps]_vars

----------------------------------------------------------------------------
(* analyzePortfolioATH called more than once in one process: the calls share *)
(* the Price Cache and may be suspended at each upstream await               *)

RunIds == {1, 2}

\* the wallets of these calls: one token, two tokens, and ETH beside a token
CacheWallets ==
    { <<Holding(TokenA, "ethereum", 100, <<"1", "0">>)>>,
      <<Holding(TokenAMixed, "ethereum", 100, <<"1", "0">>),
        Holding(TokenB, "polygon", 50, <<"5">>)>>,
      <<Holding(ETH_UPPER, "ethereum", 5000, <<"2">>),
        Holding(TokenB, "polygon", 50, <<"5">>)>> }

\* the locals of a call that has not started; "after" is the set of calls that had
\* returned when this one read the cache
NewRun ==
    [pc |-> "start", calls |-> <<>>, result |-> NoResult,
     tokenHoldings |-> <<>>, currentValue |-> Zero, athPrices |-> EmptyMap,
     asked |-> <<>>, fetched |-> EmptyMap,
     consultedAt |-> NULL, returnedAt |-> NULL, after |-> {}]

RunReturn(run, res, time) ==
    [run EXCEPT !.pc = "returned", !.result = res, !.returnedAt = time]

\* Steps 1 to 3 up to the fetch, on the answer of the balance upstream: the
\* filter, the current value, the cache loop
AthConsulted(run, resp, cache, time) ==
    LET called == [run EXCEPT !.calls = Append(@, "nansen.getCurrentBalance(all)"),
                              !.consultedAt = time]
        hs == SelectSeq(resp.data, IsTokenHolding)
        current == SumHoldingValue(hs)
        prices == CachedPrices(cache, hs, time)
        tokensToFetch == TokensToFetch(cache, hs, time)
    IN IF resp.kind = "throw" THEN RunReturn(called, AthCatch.result, time)
       ELSE IF resp.kind = "nodata" \/ Len(resp.data) = 0 \/ Len(hs) = 0
       THEN RunReturn(called, AthFallback, time)
       ELSE LET consulted == [called EXCEPT !.tokenHoldings = hs,
                                            !.currentValue = current,
                                            !.athPrices = prices,
                                            !.asked = tokensToFetch]
            IN IF Len(tokensToFetch) > 0
               THEN [consulted EXCEPT !.pc = "batchGetATHPrices"]
               ELSE RunReturn(consulted, AthResult(hs, current, prices), time)

\* the store loop and Steps 4 to 6, on the Map the price upstream resolved to
AthFetched(run, fetched, cache, time) ==
    LET called == [run EXCEPT !.calls = Append(@, "coingecko.batchGetATHPrices")]
        stored == StoreFetched(run.athPrices, cache, fetched, time)
    IN [run |-> RunReturn([called EXCEPT !.athPrices = stored.athPrices,
                                         !.fetched = fetched],
                          AthResult(run.tokenHoldings, run.currentValue,
                                    stored.athPrices),
                          time),
        athCache |-> stored.athCache]

\* the fetch failed: the catch block
AthFetchThrew(run, time) ==
    RunReturn([run EXCEPT !.calls = Append(@, "coingecko.batchGetATHPrices")],
              AthCatch.result, time)

RunGetCurrentBalance(r) ==
    /\ runs[r].pc = "start"
    /\ \E kind \in {"throw", "ok"} :
         runs' = [runs EXCEPT ![r] =
                     AthConsulted([runs[r] EXCEPT
                                      !.after = {q \in RunIds : runs[q].pc = "returned"}],
                                  [kind |-> kind, data |-> wallet], athCache, now)]
    /\ UNCHANGED <<runVars, ethVars, otherVars, txVars, now, cliVars,
                   wallet, scenario, lastSet, got, pageVars>>

\* the fetched records that the code stores back
StoredKeys(fetched) ==
    {k \in DOMAIN fetched : fetched[k].athPrice > 0 /\ fetched[k].athDate # NULL}

RunBatchGetATHPrices(r) ==
    /\ runs[r].pc = "batchGetATHPrices"
    /\ \/ /\ runs' = [runs EXCEPT ![r] = AthFetchThrew(runs[r], now)]
          /\ UNCHANGED <<athCache, lastSet>>
       \/ \E fetched \in FetchedMaps(runs[r].asked) :
            LET end == AthFetched(runs[r], fetched, athCache, now)
            IN /\ runs' = [runs EXCEPT ![r] = end.run]
               /\ athCache' = end.athCache
               /\ lastSet' = [k \in DOMAIN lastSet \cup StoredKeys(fetched) |->
                                 IF k \in StoredKeys(fetched)
                                 THEN [record |-> fetched[k], at |-> now]
                                 ELSE lastSet[k]]
    /\ UNCHANGED <<runVars, ethVars, tokenAddresses, tokenHoldings, currentValue,
                   athPrices, txVars, now, cliVars, wallet, scenario, got,
                   pageVars>>

NextCache ==
    \/ \E r \in RunIds : RunGetCurrentBalance(r)
    \/ \E r \in RunIds : RunBatchGetATHPrices(r)
    \/ Tick

InitCache ==
    /\ analyzer = "none" /\ pc = "start" /\ calls = <<>> /\ result = NoResult
    /\ upstream = NoUpstream
    /\ EthIdle
    /\ OtherIdle /\ athCache \in InitialCaches /\ now = 0
    /\ TxIdle /\ CliIdle
    /\ runs = [r \in RunIds |-> NewRun]
    /\ wallet \in CacheWallets
    /\ scenario = [athCache |-> athCache]
    /\ lastSet = SetsOf(athCache) /\ got = NoGet
    /\ PageIdle

SpecCache == InitCache /\ [][NextCache]_vars

----------------------------------------------------------------------------
(* The six analyzers invoked together on one address: each proceeds from     *)
(* await to await, the upstream answers and the initial cache being fixed    *)

\* the answers of the upstreams to the calls made for the address
SixScenarios ==
    [ pnl : {r \in PnlResponses :
                \/ r.kind = "throw"
                \/ r.kind = "ok" /\ r.realized_pnl_percent = <<3, 20>>
                                 /\ r.realized_pnl_usd = Rat(500)},
      labels : {r \in LabelResponses :
                   r.data = <<LabelItem("Smart Fund", "smart_money")>>},
      balances : {[kind |-> "throw", data |-> <<>>]}
                     \cup {[kind |-> "ok", data |-> w] :
                              w \in {v \in CacheWallets : Len(v) > 1}},
      screened : {r \in ScreenerResponses :
                     r.kind = "throw" \/ (r.kind = "ok" /\ Len(r.items) = 0)},
      transactions : {r \in Responses(EthTxUniverse, 1) :
                         r.kind = "nodata"
                             \/ (Len(r.data) = 1 /\ r.data[1].volume_usd = 200)},
      ethPrice : {r \in Responses(EthPriceBalanceUniverse, 1) :
                     Len(r.data) = 1 /\ r.data[1].price_usd = 2500},
      portfolio : {r \in Responses(PortfolioBalanceUniverse, 1) :
                      Len(r.data) = 1 /\ r.data[1].value_usd = 300},
      prices : {[kind |-> "throw", data |-> EmptyMap]}
                   \cup {[kind |-> "ok", data |-> m] :
                            m \in { (TokenA :> AthRecord(20, 1)) @@ (TokenB :> AthRecord(25, 2)),
                                    (TokenA :> AthRecord(25, 2)) @@ (TokenB :> AthRecord(0, NULL)) }},
      athCache : InitialCaches ]

\* an analyzer that has not started
SixNew == [pc |-> "start", result |-> NoResult, locals |-> <<>>]

SixReturn(run, res) == [run EXCEPT !.pc = "returned", !.result = res]

SixUntouched(run, cache) == [run |-> run, athCache |-> cache]

PnlStep(run, cache, time) ==
    SixUntouched(SixReturn(run, IF scenario.pnl.kind = "throw" THEN PnlCatch.result
                                ELSE PnlResult(scenario.pnl)), cache)

LabelsStep(run, cache, time) ==
    SixUntouched(SixReturn(run, IF scenario.labels.kind = "throw" THEN LabelsCatch.result
                                ELSE LabelsResult(scenario.labels)), cache)

SmartMoneyStep(run, cache, time) ==
    SixUntouched(SixReturn(run, IF scenario.labels.kind = "throw"
                                THEN SmartMoneyCatch.result
                                ELSE SmartMoneyResult(scenario.labels)), cache)

\* faulty variant: analyzeRuggedProjects empties the Price Cache when it starts
RuggedStepCacheReset(run, cache, time) ==
    LET resp == scenario.balances
    IN IF run.pc = "start"
       THEN [run |-> IF resp.kind = "throw" THEN SixReturn(run, RuggedCatch.result)
                     ELSE IF resp.kind = "nodata" \/ Len(resp.data) = 0
                              \/ Len(RuggedTokenAddresses(resp.data)) = 0
                     THEN SixReturn(run, RuggedClearSkies)
                     ELSE [run EXCEPT !.pc = "screenTokens"],
             athCache |-> EmptyMap]
       ELSE SixUntouched(
                IF scenario.screened.kind = "throw" \/ scenario.screened.kind = "undefined"
                THEN SixReturn(run, RuggedCatch.result)
                ELSE SixReturn(run, RuggedResult(scenario.screened)), cache)

RuggedStep(run, cache, time) ==
    LET resp == scenario.balances
    IN SixUntouched(
           IF run.pc = "start"
           THEN IF resp.kind = "throw" THEN SixReturn(run, RuggedCatch.result)
                ELSE IF resp.kind = "nodata" \/ Len(resp.data) = 0
                         \/ Len(RuggedTokenAddresses(resp.data)) = 0
                THEN SixReturn(run, RuggedClearSkies)
                ELSE [run EXCEPT !.pc = "screenTokens"]
           ELSE IF scenario.screened.kind = "throw" \/ scenario.screened.kind = "undefined"
           THEN SixReturn(run, RuggedCatch.result)
           ELSE SixReturn(run, RuggedResult(scenario.screened)), cache)

EthStep(run, cache, time) ==
    SixUntouched(
        CASE run.pc = "start" ->
               LET resp == scenario.transactions
                   buys == SelectSeq(resp.data, IsBuy)
                   acc == Accumulate(buys, Len(buys))
               IN IF resp.kind = "throw" THEN SixReturn(run, EthCatch.result)
                  ELSE IF resp.kind = "nodata" \/ Len(resp.data) = 0 \/ Len(buys) = 0
                  THEN SixReturn(run, EthFallback)
                  ELSE IF InsufficientPriceData(acc.totalEthEquivalent, acc.pricesFound,
                                                Len(buys))
                  THEN SixReturn(run, EthFallback)
                  ELSE [run EXCEPT !.pc = "getCurrentEthPrice",
                                   !.locals = [totalEthEquivalent |-> acc.totalEthEquivalent,
                                               purchasedTokens |-> extractUniqueTokens(buys),
                                               ethEquivalentValue |-> Zero]]
          [] run.pc = "getCurrentEthPrice" ->
               LET price == getCurrentEthPriceFromNansen(scenario.ethPrice)
               IN IF price = Zero THEN SixReturn(run, EthFallback)
                  ELSE [run EXCEPT !.pc = "calculateCurrentPortfolioValue",
                                   !.locals.ethEquivalentValue =
                                       RMul(run.locals.totalEthEquivalent, price)]
          [] OTHER ->
               SixReturn(run, EthSuccess(
                   calculateCurrentPortfolioValue(scenario.portfolio,
                                                  run.locals.purchasedTokens),
                   run.locals.ethEquivalentValue)),
        cache)

\* what the price upstream resolves to for the tokens asked
PricesFor(tokens) ==
    LET keys == {toLowerCase(tokens[i].token_address) : i \in DOMAIN tokens}
    IN [k \in keys \cap DOMAIN scenario.prices.data |-> scenario.prices.data[k]]

AthStep(run, cache, time) ==
    IF run.pc = "start"
    THEN LET end == AthConsulted(NewRun, scenario.balances, cache, time)
         IN SixUntouched([pc |-> end.pc, result |-> end.result, locals |-> end], cache)
    ELSE IF scenario.prices.kind = "throw"
    THEN SixUntouched(SixReturn(run, AthFetchThrew(run.locals, time).result), cache)
    ELSE LET end == AthFetched(run.locals, PricesFor(run.locals.asked), cache, time)
         IN [run |-> [pc |-> end.run.pc, result |-> end.run.result, locals |-> end.run],
             athCache |-> end.athCache]

\* one analyzer runs from where it is to its next await or to its return
SixStep(a, run, cache, time) ==
    CASE a = "pnl" -> PnlStep(run, cache, time)
      [] a = "labels" -> LabelsStep(run, cache, time)
      [] a = "smart_money" -> SmartMoneyStep(run, cache, time)
      [] a = "rugged_projects" -> RuggedStep(run, cache, time)
      [] a = "eth_benchmark" -> EthStep(run, cache, time)
      [] OTHER -> AthStep(run, cache, time)

\* the analyzer awaited alone, as the entry points do (test-runner.ts 28-115)
RECURSIVE RunToEnd(_, _, _, _)
RunToEnd(a, run, cache, time) ==
    IF run.pc = "returned" THEN [run |-> run, athCache |-> cache]
    ELSE LET s == SixStep(a, run, cache, time)
         IN RunToEnd(a, s.run, s.athCache, time)

\* the results and the cache after the first k analyzers were awaited in order
RECURSIVE Sequential(_)
Sequential(k) ==
    IF k = 0 THEN [results |-> <<>>, athCache |-> scenario.athCache]
    ELSE LET before == Sequential(k - 1)
             end == RunToEnd(AnalyzerOrder[k], SixNew, before.athCache, now)
         IN [results |-> Append(before.results, end.run.result),
             athCache |-> end.athCache]

SixAdvance(a) ==
    /\ runs[a].pc # "returned"
    /\ LET s == SixStep(a, runs[a], athCache, now)
       IN /\ runs' = [runs EXCEPT ![a] = s.run]
          /\ athCache' = s.athCache
    /\ UNCHANGED <<runVars, ethVars, tokenAddresses, tokenHoldings, currentValue,
                   athPrices, txVars, now, cliVars, wallet, scenario, lastSet, got, pageVars>>

NextSix == \E k \in DOMAIN AnalyzerOrder : SixAdvance(AnalyzerOrder[k])

InitSix ==
    /\ analyzer = "none" /\ pc = "start" /\ calls = <<>> /\ result = NoResult
    /\ upstream = NoUpstream
    /\ EthIdle
    /\ OtherIdle
    /\ TxIdle /\ CliIdle
    /\ scenario \in SixScenarios
    /\ athCache = scenario.athCache
    /\ now = 0
    /\ runs = [k \in {AnalyzerOrder[i] : i \in DOMAIN AnalyzerOrder} |-> SixNew]
    /\ wallet = scenario.balances.data
    /\ lastSet = EmptyMap /\ got = NoGet
    /\ PageIdle

SpecSix == InitSix /\ [][NextSix]_vars

----------------------------------------------------------------------------
(* The original analyzePortfolioATH, without the cache, beside the cached   *)
(* one: same holdings, same price upstream                                  *)

\* Steps 1 and 2 of the original: the filter and the current value; every
\* surviving holding is asked of the price upstream
UncachedConsulted(run, resp, time) ==
    LET called == [run EXCEPT !.calls = Append(@, "nansen.getCurrentBalance(all)"),
                              !.consultedAt = time]
        hs == SelectSeq(resp.data, IsTokenHolding)
    IN IF resp.kind = "throw" THEN RunReturn(called, AthCatch.result, time)
       ELSE IF resp.kind = "nodata" \/ Len(resp.data) = 0 \/ Len(hs) = 0
       THEN RunReturn(called, AthFallback, time)
       ELSE [called EXCEPT !.tokenHoldings = hs,
                           !.currentValue = SumHoldingValue(hs),
                           !.asked = hs,
                           !.pc = "batchGetATHPrices"]

\* Steps 4 and 5 of the original on the Map the price upstream resolved to
UncachedFetched(run, fetched, time) ==
    RunReturn([run EXCEPT !.calls = Append(@, "coingecko.batchGetATHPrices"),
                          !.athPrices = fetched, !.fetched = fetched],
              AthResult(run.tokenHoldings, run.currentValue, fetched), time)

\* what the price upstream answers for each token, every time it is asked
PriceOracles == FetchedMaps(<<Holding(TokenA, "ethereum", 1, <<"1">>),
                             Holding(TokenB, "polygon", 1, <<"1">>)>>)

\* the caches earlier runs against that upstream may have left: for some of the
\* tokens it has a dated price for, that record, one hour or 25 hours old
OracleCaches(oracle) ==
    LET ages == [StoredKeys(oracle) -> {NULL, 1, CACHE_TTL_HOURS + 1}]
    IN { [k \in {j \in StoredKeys(oracle) : age[j] # NULL} |->
             CacheEntry(oracle[k].athPrice, oracle[k].athDate, 0 - age[k])] :
         age \in ages }

EquivCached ==
    /\ runs["cached"].pc # "returned"
    /\ IF runs["cached"].pc = "start"
       THEN /\ runs' = [runs EXCEPT !["cached"] =
                           AthConsulted(@, scenario.balances, athCache, now)]
            /\ UNCHANGED athCache
       ELSE LET end == AthFetched(runs["cached"], PricesFor(runs["cached"].asked),
                                  athCache, now)
            IN /\ runs' = [runs EXCEPT !["cached"] = end.run]
               /\ athCache' = end.athCache
    /\ UNCHANGED <<runVars, ethVars, tokenAddresses, tokenHoldings, currentValue,
                   athPrices, txVars, now, cliVars, wallet, scenario, lastSet, got, pageVars>>

EquivUncached ==
    /\ runs["uncached"].pc # "returned"
    /\ runs' = [runs EXCEPT !["uncached"] =
                   IF @.pc = "start"
                   THEN UncachedConsulted(@, scenario.balances, now)
                   ELSE UncachedFetched(@, PricesFor(@.asked), now)]
    /\ UNCHANGED <<runVars, ethVars, otherVars, txVars, now, cliVars,
                   wallet, scenario, lastSet, got, pageVars>>

NextEquiv == EquivCached \/ EquivUncached

InitEquiv ==
    /\ analyzer = "none" /\ pc = "start" /\ calls = <<>> /\ result = NoResult
    /\ upstream = NoUpstream
    /\ EthIdle
    /\ OtherIdle
    /\ TxIdle /\ CliIdle
    /\ \E balances \in Responses(HoldingUniverse, MaxBalances)
                        \cup {[kind |-> "ok", data |-> w] : w \in CacheWallets},
          oracle \in PriceOracles :
          \E cache \in OracleCaches(oracle) :
              /\ scenario = [balances |-> balances,
                             prices |-> [kind |-> "ok", data |-> oracle],
                             athCache |-> cache]
              /\ athCache = cache
              /\ wallet = balances.data
    /\ now = 0
    /\ runs = [r \in {"cached", "uncached"} |-> NewRun]
    /\ lastSet = EmptyMap /\ got = NoGet
    /\ PageIdle

SpecEquiv == InitEquiv /\ [][NextEquiv]_vars

----------------------------------------------------------------------------
(* PriceService: the provider fallback chain *)

MaxProviders == 3    \* providers handed to the PriceService constructor

ProviderNames == {"Nansen", "CoinGecko", "CoinMarketCap"}

\* the constructor: the default chain, with CoinMarketCap when it is enabled,
\* or the list handed in
ProviderLists ==
    {<<"Nansen", "CoinGecko">>, <<"Nansen", "CoinGecko", "CoinMarketCap">>}
        \cup SeqsUpTo(ProviderNames, MaxProviders)

PriceMethods == {"getHistoricalPrice", "getCurrentPrice", "getATHPrice"}

\* what a provider may do when asked: throw, or resolve to a price (an ATH
\* record for getATHPrice)
ProviderOutcomes(method) ==
    {Threw} \cup {Returns(v) : v \in IF method = "getATHPrice"
                                     THEN AthAnswers \cup {AthRecord(0 - 3, 1)}
                                     ELSE {0 - 3, 0, 5, 7}}

\* faulty variant: a price of zero is taken as a price
UsableNonNegative(method, value) ==
    IF method = "getATHPrice" THEN value.athPrice >= 0 ELSE value >= 0

\* if (price > 0), if (result.athPrice > 0)
Usable(method, value) ==
    IF method = "getATHPrice" THEN value.athPrice > 0 ELSE value > 0

\* the return after the loop
AllProvidersFailed(method) ==
    IF method = "getATHPrice" THEN AthRecord(0, NULL) ELSE 0

NewPriceService(method, providers) ==
    [method |-> method, providers |-> providers, pc |-> "start",
     queried |-> <<>>, answers |-> <<>>, threw |-> FALSE, result |-> NULL]

\* the loop from its head: the next provider is queried, or the list is
\* exhausted and the method returns
PriceServiceLoop(ps) ==
    IF Len(ps.queried) < Len(ps.providers)
    THEN [ps EXCEPT !.queried = Append(@, ps.providers[Len(ps.queried) + 1]),
                    !.pc = "await"]
    ELSE [ps EXCEPT !.pc = "returned", !.result = AllProvidersFailed(ps.method)]

\* the awaited provider settles: a usable price is returned at once, a throw is
\* caught and, like an unusable price, sends the loop to the next provider
PriceServiceSettle(ps, outcome) ==
    LET heard == [ps EXCEPT !.answers = Append(@, outcome)]
    IN IF ~outcome.threw /\ Usable(ps.method, outcome.value)
       THEN [heard EXCEPT !.pc = "returned", !.result = outcome.value]
       ELSE PriceServiceLoop(heard)

PriceServiceCall ==
    /\ priceService.pc = "start"
    /\ priceService' = PriceServiceLoop(priceService)
    /\ UNCHANGED <<runVars, ethVars, otherVars, txVars, now, cliVars,
                   runs, wallet, scenario, lastSet, got, paging>>

ProviderSettles ==
    /\ priceService.pc = "await"
    /\ \E outcome \in ProviderOutcomes(priceService.method) :
          priceService' = PriceServiceSettle(priceService, outcome)
    /\ UNCHANGED <<runVars, ethVars, otherVars, txVars, now, cliVars,
                   runs, wallet, scenario, lastSet, got, paging>>

NextPrice == PriceServiceCall \/ ProviderSettles

InitPrice ==
    /\ analyzer = "none" /\ pc = "start" /\ calls = <<>> /\ result = NoResult
    /\ upstream = NoUpstream
    /\ EthIdle
    /\ OtherIdle /\ athCache = EmptyMap
    /\ TxIdle /\ CliIdle
    /\ now = 0
    /\ runs = <<>> /\ wallet = <<>> /\ scenario = <<>>
    /\ lastSet = EmptyMap /\ got = NoGet
    /\ paging = <<>>
    /\ \E method \in PriceMethods, providers \in ProviderLists :
          priceService = NewPriceService(method, providers)

SpecPrice == InitPrice /\ [][NextPrice]_vars

----------------------------------------------------------------------------
(* The fetch-all-transactions paging loop, and analyzeEthBenchmark on what  *)
(* it gathered                                                              *)

MAX_TEST_PAGES == 3

\* the records a page may carry
PageData ==
    {<<>>, <<[volume_usd |-> 200, tokens_sent |-> <<Transfer(ETH_ADDRESS, 2000, 200)>>,
             tokens_received |-> <<Transfer(TokenA, 3, 200)>>]>>}

\* what the transaction upstream may answer to a page request: the request
\* fails, the body has no data array, or it has one, with pagination.is_last_page
\* true, false or absent (undefined, which the loop negates to true)
PageAnswers ==
    {[kind |-> "throw", data |-> <<>>, is_last_page |-> "absent"],
     [kind |-> "invalid", data |-> <<>>, is_last_page |-> "absent"]}
        \cup {[kind |-> "ok", data |-> d, is_last_page |-> l] :
                 d \in PageData, l \in {"true", "false", "absent"}}

NewPaging ==
    [pc |-> "start", currentPage |-> 1, hasMorePages |-> TRUE,
     allTransactions |-> <<>>, requested |-> <<>>, pages |-> <<>>]

\* while (hasMorePages): the page currentPage is requested, or the loop is over
PagingLoop(p) ==
    IF p.hasMorePages
    THEN [p EXCEPT !.requested = Append(@, p.currentPage), !.pc = "await"]
    ELSE [p EXCEPT !.pc = "done"]

\* faulty variant: after a page without a data array the loop neither ends nor
\* asks again, and getAllTransactions never settles
PagingSettleStalls(p, page) ==
    LET got1 == [p EXCEPT !.pages = Append(@, page)]
    IN IF page.kind = "throw" THEN [got1 EXCEPT !.pc = "threw"]
       ELSE IF page.kind = "invalid" THEN [got1 EXCEPT !.pc = "stalled"]
       ELSE LET next == [got1 EXCEPT !.allTransactions = @ \o page.data,
                                     !.hasMorePages = ~(page.is_last_page = "true"),
                                     !.currentPage = @ + 1]
            IN IF next.currentPage > MAX_TEST_PAGES THEN [next EXCEPT !.pc = "done"]
               ELSE PagingLoop(next)

\* the awaited page request settles: the body of the loop after the await
PagingSettle(p, page) ==
    LET got1 == [p EXCEPT !.pages = Append(@, page)]
    IN IF page.kind = "throw" THEN [got1 EXCEPT !.pc = "threw"]
       ELSE IF page.kind = "invalid" THEN [got1 EXCEPT !.pc = "done"]
       ELSE LET next == [got1 EXCEPT !.allTransactions = @ \o page.data,
                                     !.hasMorePages = ~(page.is_last_page = "true"),
                                     !.currentPage = @ + 1]
            IN IF next.currentPage > MAX_TEST_PAGES THEN [next EXCEPT !.pc = "done"]
               ELSE PagingLoop(next)

PagingStart ==
    /\ paging.pc = "start"
    /\ paging' = PagingLoop(paging)
    /\ UNCHANGED <<runVars, ethVars, otherVars, txVars, now, cliVars,
                   runs, wallet, scenario, lastSet, got, priceService>>

PageSettles ==
    /\ paging.pc = "await"
    /\ \E page \in PageAnswers : paging' = PagingSettle(paging, page)
    /\ UNCHANGED <<runVars, ethVars, otherVars, txVars, now, cliVars,
                   runs, wallet, scenario, lastSet, got, priceService>>

\* analyzeEthBenchmark resumes when getAllTransactions settles: with what the
\* loop gathered, or in its catch when a page request failed
EthPagedTransactions ==
    /\ analyzer = "eth_benchmark" /\ pc = "start"
    /\ paging.pc \in {"done", "threw"}
    /\ calls' = Append(calls, EthTransactionsCall)
    /\ EthTransactionsArrive([kind |-> IF paging.pc = "threw" THEN "throw" ELSE "ok",
                              data |-> paging.allTransactions])
    /\ UNCHANGED <<analyzer, auxVars, txVars, otherVars>>

NextPaging ==
    \/ PagingStart
    \/ PageSettles
    \/ EthPagedTransactions
    \/ EthGetCurrentEthPrice
    \/ EthCalculatePortfolioValue

InitPaging ==
    /\ analyzer = "eth_benchmark"
    /\ pc = "start" /\ calls = <<>> /\ result = NoResult
    /\ upstream = NoUpstream
    /\ EthIdle
    /\ OtherIdle /\ athCache = EmptyMap
    /\ TxIdle /\ CliIdle
    /\ now = 0
    /\ runs = <<>> /\ wallet = <<>> /\ scenario = <<>>
    /\ lastSet = EmptyMap /\ got = NoGet
    /\ priceService = <<>>
    /\ paging = NewPaging

SpecPaging == InitPaging /\ [][NextPaging]_vars

\* analyzeEthBenchmark leaves the await it is at: the step of NextPaging that
\* EthPagedTransactions, EthGetCurrentEthPrice or EthCalculatePortfolioValue
\* takes there, each of which has an outcome for every answer and moves pc on
EthResumes ==
    /\ analyzer = "eth_benchmark"
    /\ \/ pc = "start" /\ paging.pc \in {"done", "threw"}
       \/ pc \in {"getCurrentEthPrice", "calculateCurrentPortfolioValue"}
    /\ pc' \in {"getCurrentEthPrice", "calculateCurrentPortfolioValue", "returned"}
    /\ pc' # pc

\* every request settles and every continuation is run: the loop is started,
\* an awaited page settles, and the analyzer resumes from each of its awaits
SpecPagingFair ==
    /\ InitPaging /\ [][NextPaging]_vars
    /\ WF_vars(PagingStart) /\ WF_vars(PageSettles) /\ WF_pc(EthResumes)

----------------------------------------------------------------------------
Analyzers ==
    {"pnl", "labels", "smart_money", "rugged_projects", "eth_benchmark", "portfolio_ath"}

Init ==
    /\ analyzer \in Analyzers
    /\ pc = "start" /\ calls = <<>> /\ result = NoResult
    /\ upstream = NoUpstream
    /\ EthIdle
    /\ OtherIdle
    /\ athCache \in (IF analyzer = "portfolio_ath" THEN InitialCaches ELSE {EmptyMap})
    /\ now = 0
    /\ CliIdle /\ ConcIdle
    /\ TxIdle

Next == NextEth \/ NextOthers

Spec == Init /\ [][Next]_vars

----------------------------------------------------------------------------
(* Properties *)

Returned == pc = "returned"
EthRun == analyzer = "eth_benchmark"
EthSucceeded == EthRun /\ Returned /\ result.success

\* the buys of the run for which an ETH price was found
PricedBuys == {i \in DOMAIN buyTransactions :
                  RLt(Zero, getEthPriceFromTransaction(buyTransactions[i]))}

RECURSIVE SumOver(_, _)
SumOver(S, f) ==
    IF S = {} THEN Zero
    ELSE LET i == CHOOSE i \in S : TRUE IN RAdd(f[i], SumOver(S \ {i}, f))

\* C1: every analyzer run ends by returning a structured result object of its own
\* type, whatever the upstream does (a rejected call included); no exception ever
\* leaves the analyzer, and a run that has not returned is at a call of its analyzer.
Positions(a) ==
    CASE a = "eth_benchmark" ->
            {"start", "getCurrentEthPrice", "calculateCurrentPortfolioValue"}
      [] a = "rugged_projects" -> {"start", "screenTokens"}
      [] a = "portfolio_ath" -> {"start", "batchGetATHPrices"}
      [] OTHER -> {"start"}

C1_NoExceptionEscapes ==
    /\ pc # "threw"
    /\ Returned => /\ {"type", "success"} \subseteq DOMAIN result
                   /\ result.type = analyzer
                   /\ result.success \in BOOLEAN
    /\ ~Returned => pc \in Positions(analyzer)

\* a run whose second upstream call was rejected and that returned all the same
C1_Witness ==
    /\ analyzer = "portfolio_ath" /\ Returned
    /\ Len(calls) = 2 /\ upstream.last = "throw"
    /\ result = AthFallback

\* C2: in analyzeEthBenchmark a rejected call or a payload without data, of any of
\* the three upstream calls, always ends in success=false with the fixed fallback.
C2_FailureGivesFallback ==
    (EthRun /\ Returned /\ \E c \in {"transactions", "ethPrice", "portfolio"} :
                              upstream[c] \in {"throw", "nodata"})
        => result = EthFallback

\* C3: every returned result carries exactly one payload: data and no fallback
\* when success is true, a fallback and no data when success is false.
C3_ExactlyOnePayload ==
    Returned =>
        IF result.success
        THEN "data" \in DOMAIN result /\ "fallback" \notin DOMAIN result
        ELSE "fallback" \in DOMAIN result /\ "data" \notin DOMAIN result

EthProceeded == pc = "getCurrentEthPrice" \/ Len(calls) >= 2

\* C4: with N >= 1 buys of which P were priced, the run goes on past the
\* price-coverage check exactly when 2*P >= N and the total ETH-equivalent is not
\* zero, and otherwise returns the fallback without a further upstream call.
C4_CoverageCheck ==
    (EthRun /\ Len(buyTransactions) >= 1) =>
        LET N == Len(buyTransactions)
            P == Cardinality(PricedBuys)
        IN IF 2 * P >= N /\ totalEthEquivalent # Zero
           THEN EthProceeded
           ELSE Returned /\ result = EthFallback /\ Len(calls) = 1

\* exactly 50% coverage: one of two buys priced, and the run went on
C4_Witness ==
    /\ EthRun /\ Len(buyTransactions) = 2 /\ Cardinality(PricedBuys) = 1
    /\ pc = "getCurrentEthPrice"

\* C5: on success, ethEquivalentValue = currentEthPrice * the sum, over the buys
\* with an ETH price, of volume_usd / ethPriceAtTime; unpriced buys add nothing.
C5_EthEquivalentValue ==
    EthSucceeded =>
        result.data.ethEquivalentValue =
            RMul(currentEthPrice,
                 SumOver(PricedBuys,
                         [i \in PricedBuys |->
                             RDiv(Rat(buyTransactions[i].volume_usd),
                                  getEthPriceFromTransaction(buyTransactions[i]))]))

\* two buys, $200 at $2,000 and one without a price, current price $2,500: 250
C5_Witness ==
    /\ EthSucceeded
    /\ Len(buyTransactions) = 2 /\ Cardinality(PricedBuys) = 1
    /\ currentEthPrice = Rat(2500)
    /\ result.data.ethEquivalentValue = Rat(250)

NativePositive(list) ==
    {i \in DOMAIN list :
        /\ list[i].token_address # NullAddr
        /\ toLowerCase(list[i].token_address) = toLowerCase(ETH_ADDRESS)
        /\ Positive(list[i].price_usd)}

UsableForEstimate(token) == Positive(token.price_usd) /\ Positive(token.value_usd)

Estimate(t, token) ==
    RMul(Rat(token.price_usd), RDiv(Rat(t.volume_usd), Rat(token.value_usd)))

\* the first two preferences of C6, shared by the claim and its amendment
NativePreference(t, price) ==
    IF NativePositive(t.tokens_sent) # {}
    THEN \E i \in NativePositive(t.tokens_sent) : price = Rat(t.tokens_sent[i].price_usd)
    ELSE NativePositive(t.tokens_received) # {} =>
            \E i \in NativePositive(t.tokens_received) :
                price = Rat(t.tokens_received[i].price_usd)

NoNative(t) == NativePositive(t.tokens_sent) = {} /\ NativePositive(t.tokens_received) = {}

C7_UniqueNonNative ==
    EthRun =>
        /\ \A i, j \in DOMAIN purchasedTokens :
              toLowerCase(purchasedTokens[i]) = toLowerCase(purchasedTokens[j]) => i = j
        /\ \A i \in DOMAIN purchasedTokens :
              toLowerCase(purchasedTokens[i]) # toLowerCase(ETH_ADDRESS)

\* the balance entries the wallet holds of tokens in the purchased-token set
HeldPurchased ==
    {i \in DOMAIN upstream.balances :
        \E j \in DOMAIN purchasedTokens :
            toLowerCase(upstream.balances[i].token_address)
                = toLowerCase(purchasedTokens[j])}

\* C8: on success, portfolioValue is the sum of value_usd of exactly the wallet's
\* current balance entries whose token is in the purchased-token set.
C8_PortfolioValueIsSum ==
    EthSucceeded =>
        result.data.portfolioValue =
            SumOver(HeldPurchased,
                    [i \in HeldPurchased |-> Rat(upstream.balances[i].value_usd)])

\* C9: on success, performancePercent = (portfolioValue - ethEquivalentValue) /
\* ethEquivalentValue * 100, and the status is OUTPERFORMED exactly when it is
\* >= 0 (a tie included) and UNDERPERFORMED exactly when it is negative.
C9_PerformanceAndStatus ==
    EthSucceeded =>
        LET d == result.data
            expected == RMul(RDiv(RSub(d.portfolioValue, d.ethEquivalentValue),
                                  d.ethEquivalentValue), Rat(100))
        IN /\ d.performancePercent = expected
           /\ d.status = "OUTPERFORMED" <=> expected[1] >= 0
           /\ d.status = "UNDERPERFORMED" <=> expected[1] < 0

\* a tie: the portfolio is worth exactly the ETH equivalent
C9_Witness ==
    /\ EthSucceeded
    /\ result.data.portfolioValue = result.data.ethEquivalentValue
    /\ result.data.performancePercent = Zero
    /\ result.data.status = "OUTPERFORMED"

IsPrefix(s, t) == Len(s) <= Len(t) /\ \A i \in DOMAIN s : s[i] = t[i]

\* C10: a run of analyzeEthBenchmark never calls the price upstream; its calls
\* are, in order, the transaction-history fetch, at most one balance fetch for the
\* ETH price (only once the coverage check passed) and at most one balance fetch
\* for the portfolio value (only once a positive ETH price was obtained; without
\* one the run ends with the fallback).
C10_CallOrder ==
    EthRun =>
        /\ IsPrefix(calls, << "nansen.getAllTransactions",
                              "nansen.getCurrentBalance(ethereum)",
                              "nansen.getCurrentBalance(all)" >>)
        /\ Len(calls) >= 2 =>
              /\ 2 * Cardinality(PricedBuys) >= Len(buyTransactions)
              /\ Len(buyTransactions) >= 1
        /\ Len(calls) = 3 => RLt(Zero, currentEthPrice)
        /\ (Len(calls) = 2 /\ currentEthPrice = Zero) =>
              Returned /\ result = EthFallback

\* all three calls were made
C10_Witness == EthRun /\ Returned /\ Len(calls) = 3

----------------------------------------------------------------------------
(* analyzePortfolioATH *)

AthRun == analyzer = "portfolio_ath"
AthSucceeded == AthRun /\ Returned /\ result.success

\* the holdings of the balance answer that are neither a native-asset sentinel
\* nor without positive value
Surviving ==
    {i \in DOMAIN upstream.balances :
        /\ toLowerCase(upstream.balances[i].token_address)
               \notin {toLowerCase(ETH_ADDRESS), toLowerCase(ZKSYNC_ETH)}
        /\ upstream.balances[i].value_usd > 0}

\* the ATH record the run has for a holding: the fetched one, else the cached one
AthRecordFor(holding) ==
    LET key == toLowerCase(holding.token_address)
    IN IF key \in DOMAIN upstream.fetched THEN upstream.fetched[key]
       ELSE athCacheGet(athCache, key, now)

\* the surviving holdings with a genuine ATH hit
AthHits == {i \in Surviving : AthRecordFor(upstream.balances[i]).athPrice > 0}

AthContribution(holding) ==
    IF AthRecordFor(holding).athPrice > 0
    THEN RMul(parseFloat(holding.balance), Rat(AthRecordFor(holding).athPrice))
    ELSE Rat(holding.value_usd)

C12_AthFallbacks ==
    (AthRun /\ Returned) =>
        /\ (upstream.balances = <<>> \/ Surviving = {} \/ AthHits = {})
               => result = AthFallback
        /\ result.success => AthHits # {}

\* holdings survived and were asked of the price upstream, which knew no ATH
C12_Witness ==
    /\ AthRun /\ Returned /\ Len(calls) = 2 /\ upstream.last = "ok"
    /\ Surviving # {} /\ AthHits = {}
    /\ result = AthFallback

\* C13: whenever analyzePortfolioATH computes potentialGainPercent, currentValue
\* is strictly positive: the division is never a division by zero.
C13_CurrentValuePositive ==
    /\ (AthRun /\ tokenHoldings # <<>>) => RLt(Zero, currentValue)
    /\ AthSucceeded => /\ RLt(Zero, result.data.currentValue)
                       /\ IsFinite(result.data.potentialGainPercent)

\* a success whose balance answer also held a holding without value
C13_Witness ==
    /\ AthSucceeded
    /\ \E i \in DOMAIN upstream.balances : upstream.balances[i].value_usd = 0
    /\ RLt(Zero, result.data.currentValue)

\* the surviving holdings whose token the run asked of the price upstream
AskedKeys == {toLowerCase(upstream.asked[i].token_address) : i \in DOMAIN upstream.asked}

\* the cache had no live entry for the key when the run consulted it: there is
\* none, or an expired one, or the one this run stored after its fetch
MissedAtConsult(key) ==
    \/ ~MapHas(athCache, key)
    \/ Expired(athCache[key], now)
    \/ /\ key \in DOMAIN upstream.fetched
       /\ athCache[key] = CacheEntry(upstream.fetched[key].athPrice,
                                     upstream.fetched[key].athDate, now)

\* C14: in analyzePortfolioATH the Price Cache is consulted for every surviving
\* holding before any fetch from the price upstream, only the tokens it missed
\* are fetched, and after the run every token for which the fetch returned a
\* valid result (athPrice > 0) has a cache entry holding that result.
C14_CacheBeforeFetch ==
    AthRun =>
        /\ pc = "batchGetATHPrices" =>
              /\ calls = <<"nansen.getCurrentBalance(all)">>
              /\ \A i \in Surviving :
                    LET key == toLowerCase(upstream.balances[i].token_address)
                    IN IF athCacheGet(athCache, key, now) # Absent
                       THEN MapHas(athPrices, key)
                               /\ athPrices[key] = athCacheGet(athCache, key, now)
                       ELSE ~MapHas(athPrices, key)
        /\ Len(calls) = 2 =>
              /\ AskedKeys # {}
              /\ \A i \in Surviving :
                    LET key == toLowerCase(upstream.balances[i].token_address)
                    IN key \in AskedKeys <=> MissedAtConsult(key)
              /\ DOMAIN upstream.fetched \subseteq AskedKeys
        /\ Returned =>
              \A key \in DOMAIN upstream.fetched :
                  upstream.fetched[key].athPrice > 0 =>
                      athCacheGet(athCache, key, now) = upstream.fetched[key]

----------------------------------------------------------------------------
(* Address validation and the entry points *)

\* a test script has validated its configured address
Validated == cliEntry \in Scripts /\ cliPc # "start"

\* "0x" followed by HexLen hexadecimal characters
IsHexAddressString(str) ==
    /\ Len(str) = HexLen + 2
    /\ SubSeq(str, 1, 2) = <<"0", "x">>
    /\ \A i \in 3..Len(str) : IsHexChar(str[i])

\* the canonical form: the hex letters in lower case
IsCanonical(str) ==
    IsHexAddressString(str) /\ \A i \in DOMAIN str : str[i] \notin {"A", "B", "C", "D", "E", "F"}

\* the parts of str between white space at both ends that are hex addresses
Cores(str) ==
    {c \in {<<i, j>> : i \in 0..Len(str), j \in 0..Len(str)} :
        /\ c[1] <= c[2]
        /\ \A k \in 1..c[1] : IsWhiteSpace(str[k])
        /\ \A k \in (c[2] + 1)..Len(str) : IsWhiteSpace(str[k])
        /\ IsHexAddressString(SubSeq(str, c[1] + 1, c[2]))}

\* what is asked of an accepted address in the claim and in its amendment
NormalForm(out, str) ==
    /\ IsCanonical(out.value)
    /\ validateAndNormalizeAddress(toLowerCase(str)) = out
    /\ validateAndNormalizeAddress(out.value) = out

\* C19 as claimed: validateAndNormalizeAddress accepts exactly the strings that
\* are "0x" followed by the hex digits, returns their lower-case form (the same
\* for inputs differing in case, unchanged for a normalized one) and throws for
\* every other string.
C19_AcceptsExactlyHexStrings ==
    Validated =>
        /\ ~cliAddress.threw <=> IsHexAddressString(cliInput[1])
        /\ ~cliAddress.threw =>
              cliAddress.value = toLowerCase(cliInput[1])
                 /\ NormalForm(cliAddress, cliInput[1])

\* C19 amended: it accepts exactly the strings that are such an address once
\* leading and trailing white space is removed, returns the lower-case form of
\* that address, and throws for every other string.
C19_AcceptsTrimmedHexStrings ==
    Validated =>
        /\ ~cliAddress.threw <=> Cores(cliInput[1]) # {}
        /\ ~cliAddress.threw =>
              /\ \E c \in Cores(cliInput[1]) :
                     cliAddress.value = toLowerCase(SubSeq(cliInput[1], c[1] + 1, c[2]))
              /\ NormalForm(cliAddress, cliInput[1])
        /\ cliAddress.threw => cliAddress = Threw /\ cliPc = "exit"

\* an address in upper case after a blank was accepted and normalized
C19_Witness ==
    /\ Validated /\ ~cliAddress.threw
    /\ cliInput[1] = <<" ", "0", "x", "A", "0">>
    /\ cliAddress.value = <<"0", "x", "a", "0">>

\* C20: in every entry point (the two test scripts and the test-runner CLI) no
\* analyzer is invoked for an address that fails validation: a malformed address
\* is rejected before any upstream call.
C20_ValidatedBeforeAnalyzers ==
    /\ \A i \in DOMAIN cliInvoked :
          ~validateAndNormalizeAddress(cliInvoked[i].address).threw
    /\ \A i \in DOMAIN cliInput :
          (validateAndNormalizeAddress(cliInput[i]).threw /\ cliPc # "start")
              => cliInvoked = <<>> /\ cliPc = "exit"

\* what a get of the address must give now, from the latest set of its key
ExpectedGet(address) ==
    LET key == toLowerCase(address)
    IN IF MapHas(lastSet, key) /\ now - lastSet[key].at <= CACHE_TTL_HOURS
       THEN lastSet[key].record
       ELSE Absent

\* C16: a get, in any letter case of the address, gives the record of the
\* latest set with a positive price while that set is at most 24 hours old, and
\* absent once it is older (or when there was none); a stale entry is not
\* removed from the map by the passing of time or by a get.
C16_CacheRoundTripAndExpiry ==
    /\ \A address \in CacheAddresses :
          athCacheGet(athCache, address, now) = ExpectedGet(address)
    /\ \A key \in DOMAIN lastSet :
          /\ MapHas(athCache, key)
          /\ athCache[key].cachedAt = lastSet[key].at
          /\ athCache[key].athPrice > 0

\* a set under one spelling was read back under the other at the age of
\* exactly 24 hours, and an older entry was read as absent while still stored
C16_Witness ==
    /\ got.address = TokenAMixed /\ got.at = now /\ got.record = Absent
    /\ got.record = athCacheGet(athCache, got.address, now)
    /\ MapHas(athCache, TokenA) /\ now - athCache[TokenA].cachedAt > CACHE_TTL_HOURS
    /\ MapHas(lastSet, TokenB) /\ now - lastSet[TokenB].at = CACHE_TTL_HOURS
    /\ athCacheGet(athCache, TokenB, now) = AthRecord(25, 2)

\* every entry written since the start came whole from one fetch of its token
FromOneFetch(key) ==
    \E r \in RunIds :
        /\ MapHas(runs[r].fetched, key)
        /\ runs[r].fetched[key] = AthRecord(athCache[key].athPrice, athCache[key].athDate)
        /\ athCache[key].cachedAt = runs[r].returnedAt

\* C17: under every interleaving of the calls, each cache entry holds a
\* positive athPrice and the athPrice/athDate pair that one single fetch
\* returned for that token (or is an entry that was there from the start), and
\* the entry of a key equals the value written last.
C17_CacheNeverCorrupted ==
    /\ DOMAIN athCache = DOMAIN lastSet
    /\ \A key \in DOMAIN athCache :
          /\ athCache[key].athPrice > 0
          /\ \/ FromOneFetch(key)
             \/ MapHas(scenario.athCache, key) /\ athCache[key] = scenario.athCache[key]
          /\ athCache[key] = CacheEntry(lastSet[key].record.athPrice,
                                        lastSet[key].record.athDate, lastSet[key].at)

\* both calls missed the same token, both fetched it with different answers at
\* different times, and the entry is the one of the call that wrote last
C17_Witness ==
    /\ \A r \in RunIds : runs[r].pc = "returned" /\ 2 \in DOMAIN runs[r].calls
    /\ runs[1].consultedAt < runs[2].returnedAt
    /\ runs[2].consultedAt < runs[1].returnedAt
    /\ MapHas(runs[1].fetched, TokenB) /\ runs[1].fetched[TokenB] = AthRecord(20, 1)
    /\ MapHas(runs[2].fetched, TokenB) /\ runs[2].fetched[TokenB] = AthRecord(25, 2)
    /\ runs[2].returnedAt < runs[1].returnedAt
    /\ athCache[TokenB] = CacheEntry(20, 1, runs[1].returnedAt)

\* the second call read the cache after the first had returned a result, and
\* at most 24 hours after that return
SecondRun(first, second) ==
    /\ first # second
    /\ first \in runs[second].after
    /\ runs[first].result.success
    /\ runs[second].tokenHoldings # <<>>
    /\ runs[second].consultedAt - runs[first].returnedAt <= CACHE_TTL_HOURS

PriceCalls(r) ==
    {i \in DOMAIN runs[r].calls : runs[r].calls[i] = "coingecko.batchGetATHPrices"}

LiveKeys(first, second) ==
    StoredKeys(runs[first].fetched)
    \cup {k \in DOMAIN scenario.athCache :
             runs[second].consultedAt - scenario.athCache[k].cachedAt <= CACHE_TTL_HOURS}

PnlRun == analyzer = "pnl" /\ Returned

\* C22: analyzePnl returns the fallback exactly when there is no response (the
\* call threw or gave none), when realized_pnl_usd is missing, or when both
\* |realized_pnl_percent * 100| < 0.01 and |realized_pnl_usd| < 1; otherwise it
\* returns success with the percent equal to the raw fraction times 100, the
\* USD amount as received, and status GAIN exactly when the percent is >= 0.
C22_PnlFallbackAndScaling ==
    PnlRun =>
        LET resp == upstream.answer
            percent == RMul(resp.realized_pnl_percent, Rat(100))
            small == /\ RLt(RAbs(percent), <<1, 100>>)
                     /\ RLt(RAbs(resp.realized_pnl_usd), Rat(1))
        IN IF resp.kind # "ok" \/ small
           THEN result = PnlFallback
           ELSE /\ result.success
                /\ result.data.realized_pnl_percent = percent
                /\ result.data.realized_pnl_usd = resp.realized_pnl_usd
                /\ result.data.status = "GAIN" <=> RGeq(percent, Zero)
                /\ result.data.status \in {"GAIN", "LOSS"}

\* the raw fraction -0.0002 (0.02 percent, above its threshold) came with
\* -125.61 USD: success, -0.02 percent, LOSS
C22_Witness ==
    /\ PnlRun /\ upstream.answer.kind = "ok"
    /\ upstream.answer.realized_pnl_percent = <<0 - 1, 5000>>
    /\ upstream.answer.realized_pnl_usd = <<0 - 12561, 100>>
    /\ result.success /\ result.data.realized_pnl_percent = <<0 - 1, 50>>
    /\ result.data.status = "LOSS"

RuggedRun == analyzer = "rugged_projects" /\ Returned

\* the items the screener flagged for this run
Flagged ==
    IF Len(calls) = 2 /\ upstream.answer.kind = "ok" THEN upstream.answer.items ELSE <<>>

\* C23: analyzeRuggedProjects always returns a success result whose ruggedCount
\* is the length of its ruggedTokens, and when nothing is flagged (no holdings,
\* only native holdings, an empty screener result) the count is 0 and the list
\* is empty.
C23_ClearSkiesIsSuccess ==
    RuggedRun =>
        /\ result.success
        /\ result.data.ruggedCount = Len(result.data.ruggedTokens)
        /\ result.data.ruggedCount = Len(Flagged)
        /\ Len(Flagged) = 0 => result.data.ruggedTokens = <<>>

\* the screener was asked and flagged nothing
C23_Witness ==
    /\ RuggedRun /\ Len(calls) = 2 /\ upstream.answer.kind = "ok"
    /\ upstream.answer.items = <<>>
    /\ result.success /\ result.data.ruggedCount = 0

\* the upstreams answered within the filters of the requests: holdings of at
\* least MIN_VALUE_USD, screened tokens from the watch list with liquidity from
\* 0 to LIQUIDITY_THRESHOLD
FiltersHonoured ==
    /\ \A i \in DOMAIN upstream.balances :
          upstream.balances[i].value_usd >= MIN_VALUE_USD
    /\ \A i \in DOMAIN Flagged :
          /\ \E j \in DOMAIN tokenAddresses :
                toLowerCase(tokenAddresses[j]) = toLowerCase(Flagged[i].token_address)
          /\ \A l \in {Flagged[i].liquidity_usd, Flagged[i].liquidity} \ {NULL} :
                0 <= l /\ l <= LIQUIDITY_THRESHOLD

\* the reported token is a non-native holding of the wallet worth at least $5
HeldToken(address) ==
    \E i \in DOMAIN upstream.balances :
        /\ upstream.balances[i].token_address # NullAddr
        /\ toLowerCase(upstream.balances[i].token_address) = toLowerCase(address)
        /\ toLowerCase(address) # ETH_ADDRESS
        /\ upstream.balances[i].value_usd >= MIN_VALUE_USD

\* C24: every token reported in ruggedTokens is a non-native holding of the
\* wallet worth at least $5 whose liquidity is strictly greater than $0 and
\* strictly less than $10,000 (the upstreams answering within the filters they
\* were asked with).
C24_ReportedTokensAreRugged ==
    RuggedRun /\ FiltersHonoured =>
        \A i \in DOMAIN result.data.ruggedTokens :
            /\ HeldToken(Flagged[i].token_address)
            /\ result.data.ruggedTokens[i].liquidity > 0
            /\ result.data.ruggedTokens[i].liquidity < LIQUIDITY_THRESHOLD

LabelsRun == analyzer = "labels" /\ Returned

\* the label strings the upstream returned to the run
AnswerLabels ==
    IF upstream.answer.kind = "ok"
    THEN {upstream.answer.data[i].label : i \in DOMAIN upstream.answer.data}
    ELSE {}

\* C25: analyzeLabels returns success exactly when a returned label string
\* equals an entry of LABEL_PRIORITY, the label is then the matching entry of
\* smallest index, and without a match the result is success=false with
\* fallback null; a label in another letter case or one that contains a
\* priority label does not match.
C25_ExactPriorityMatch ==
    LabelsRun =>
        LET matches == {k \in DOMAIN LABEL_PRIORITY : LABEL_PRIORITY[k] \in AnswerLabels}
        IN IF matches = {} THEN result = LabelsFallback
           ELSE /\ result.success
                /\ \E k \in matches : /\ result.data.label = LABEL_PRIORITY[k]
                                       /\ \A j \in matches : k <= j

\* two priority labels came in the reverse of their priority, beside nothing
\* else: the one of smaller index is returned
C25_Witness ==
    /\ LabelsRun /\ upstream.answer.kind = "ok"
    /\ LabelStrings(upstream.answer.data) = <<"Staker", "Memecoin Whale">>
    /\ result.success /\ result.data.label = "Memecoin Whale"

SmartMoneyRun == analyzer = "smart_money" /\ Returned

\* C26: whenever the wallet's labels include one or more of the four labels of
\* SMART_MONEY_PRIORITY, analyzeSmartMoney returns success with labels equal
\* to the single one of highest priority among all the labels.
C26_SmartMoneyPriority ==
    SmartMoneyRun =>
        LET matches == {k \in DOMAIN SMART_MONEY_PRIORITY :
                           SMART_MONEY_PRIORITY[k] \in AnswerLabels}
        IN matches # {} =>
               /\ result.success
               /\ \E k \in matches : /\ result.data.labels = <<SMART_MONEY_PRIORITY[k]>>
                                      /\ \A j \in matches : k <= j

\* the run got as far as the division by ethEquivalentValue
ReachedPerformance ==
    /\ analyzer = "eth_benchmark"
    /\ \/ pc = "calculateCurrentPortfolioValue"
       \/ Returned /\ result.success

\* C29: in every run of analyzeEthBenchmark that reaches the computation of
\* performancePercent, every buy has volume_usd > 0, every accepted ETH price
\* is > 0, the total ETH-equivalent and the current ETH price are > 0, so
\* ethEquivalentValue is > 0 and a success result carries a finite
\* performancePercent.
C29_EthEquivalentValuePositive ==
    ReachedPerformance =>
        /\ \A i \in DOMAIN buyTransactions : buyTransactions[i].volume_usd > 0
        /\ \A i \in PricedBuys :
              RLt(Zero, getEthPriceFromTransaction(buyTransactions[i]))
        /\ PricedBuys # {}
        /\ RLt(Zero, totalEthEquivalent)
        /\ RLt(Zero, currentEthPrice)
        /\ RLt(Zero, ethEquivalentValue)
        /\ Returned => /\ IsFinite(result.data.performancePercent)
                       /\ result.data.ethEquivalentValue = ethEquivalentValue

\* a success whose history also held a transaction without volume and one
\* whose prices are zero or negative
C29_Witness ==
    /\ ReachedPerformance /\ Returned
    /\ Len(buyTransactions) = 2 /\ Cardinality(PricedBuys) = 1
    /\ \E i \in DOMAIN buyTransactions : buyTransactions[i].volume_usd = 80
    /\ IsFinite(result.data.performancePercent)

Missed(i) ==
    LET outcome == priceService.answers[i]
    IN outcome.threw \/ ~(IF priceService.method = "getATHPrice"
                          THEN outcome.value.athPrice > 0 ELSE outcome.value > 0)

\* C27: getHistoricalPrice, getCurrentPrice and getATHPrice query the providers
\* in list order, one at a time; every provider heard before the last one
\* missed; the call returns the first answer above zero without querying a
\* later provider, returns 0 (or {athPrice: 0, athDate: null}) only when every
\* provider was queried and missed, and never throws.
C27_ProviderFallbackChain ==
    LET ps == priceService
        asked == Len(ps.queried)
        heard == Len(ps.answers)
    IN /\ asked <= Len(ps.providers)
       /\ ps.queried = SubSeq(ps.providers, 1, asked)
       /\ heard <= asked /\ asked <= heard + 1
       /\ \A i \in 1..(heard - 1) : Missed(i)
       /\ ~ps.threw
       /\ ps.pc = "await" => asked = heard + 1 /\ \A i \in 1..heard : Missed(i)
       /\ ps.pc = "returned" =>
             /\ asked = heard
             /\ IF heard > 0 /\ ~Missed(heard)
                THEN ps.result = ps.answers[heard].value
                ELSE /\ asked = Len(ps.providers)
                     /\ ps.result = (IF ps.method = "getATHPrice"
                                     THEN [athPrice |-> 0, athDate |-> NULL] ELSE 0)

\* of three providers the first threw, the second answered 0 and the third
\* gave the price returned
C27_Witness ==
    /\ priceService.pc = "returned"
    /\ priceService.method = "getCurrentPrice"
    /\ Len(priceService.providers) = 3
    /\ priceService.queried = priceService.providers
    /\ Len(priceService.answers) = 3
    /\ priceService.answers[1].threw
    /\ priceService.answers[2] = Returns(0)
    /\ priceService.result = 7

\* the first of three providers gave an ATH above zero and the others were
\* never queried
C27_EarlyReturn ==
    /\ priceService.pc = "returned"
    /\ priceService.method = "getATHPrice"
    /\ Len(priceService.providers) = 3
    /\ Len(priceService.queried) = 1
    /\ priceService.result.athPrice > 0

RECURSIVE PagesConcat(_)
\* the records of the first k pages received, in page order
PagesConcat(k) == IF k = 0 THEN <<>> ELSE PagesConcat(k - 1) \o paging.pages[k].data

\* the last page received, when it had a data array
LastPageValid ==
    Len(paging.pages) > 0 /\ paging.pages[Len(paging.pages)].kind = "ok"

\* C21: the paging loop requests pages 1, 2, 3, ... in increasing order, one at
\* a time; it goes on or stops on pagination.is_last_page alone, so it asks
\* nothing after the first page flagged last and, after a page with data, stops
\* only if that page was flagged last; what it returns is the concatenation, in
\* page order, of the records of the pages fetched.
C21_PagesUntilLastPage ==
    LET asked == Len(paging.requested)
        heard == Len(paging.pages)
    IN /\ \A i \in 1..asked : paging.requested[i] = i
       /\ heard <= asked /\ asked <= heard + 1
       /\ \A i \in 1..heard : i < asked => paging.pages[i].is_last_page # "true"
       /\ paging.allTransactions = PagesConcat(heard)
       /\ paging.pc = "done" /\ LastPageValid
             => paging.pages[heard].is_last_page = "true"

\* the loop is over and analyzeEthBenchmark has returned
PagedRunReturned == paging.pc \in {"done", "threw"} /\ pc = "returned"

\* C28: when every request settles, the paging loop ends after finitely many
\* page requests and analyzeEthBenchmark returns a result; the loop never goes
\* back to an earlier page.
C28_EthBenchmarkTerminates ==
    /\ <>PagedRunReturned
    /\ [][paging'.currentPage >= paging.currentPage]_vars

\* the run returned a success after the loop fetched two pages, the second
\* flagged last
C28_Witness ==
    /\ PagedRunReturned
    /\ result.success
    /\ paging.requested = <<1, 2>>
    /\ paging.pages[2].is_last_page = "true"

====
